---- MODULE Spec2Model ----
(***************************************************************************)
(* gv: terminal diff viewer.  A model of the row aligner and row counts    *)
(* (src/ui/diff_view.rs), the file tree (src/ui/file_tree.rs) and the      *)
(* navigation state of App (src/app.rs).                                   *)
(*                                                                         *)
(* Two specifications share the module:                                    *)
(*   Spec      the App event loop: one action per key / mouse / resize     *)
(*             event, each the whole handler;                              *)
(*   SpecRows  the row functions of diff_view.rs applied to one FileDiff   *)
(*             drawn from a bounded set, the full-file renderer walked     *)
(*             one row per step.                                           *)
(***************************************************************************)
EXTENDS Integers, Sequences, FiniteSets, TLC

VARIABLES
    \* ---- App (src/app.rs:63-115) ----
    height,            \* App.height (u16), set by draw / Resize
    diffs,             \* App.diffs: Seq(FileDiff)
    visible_diffs,     \* App.visible_diffs: Seq(index into diffs), 1-based here
    file_tree,         \* App.file_tree: Seq(TreeNode)
    expanded_folders,  \* App.expanded_folders: path -> BOOLEAN
    view_mode,         \* App.view_mode
    diff_mode,         \* App.diff_mode
    focus,             \* App.focus
    content_scroll,    \* App.content_scroll
    sidebar_scroll,    \* App.sidebar_scroll
    file_cursor,       \* App.file_cursor
    show_hidden,       \* App.show_hidden
    number_prefix,     \* App.number_prefix: Option<usize>
    run_state,         \* "running", "quit" (handle_key returned true) or "panicked"
    highlighter,       \* App.highlighter.cache: cache key -> Seq(HighlightedLine)
    repo_path,         \* App.repo_path, as the repository found at that path
    commits,           \* App.commits: Seq(Commit)
    popup_cursor,      \* App.popup_cursor
    worktrees,         \* App.worktrees: Seq(Worktree)
    current_worktree,  \* App.current_worktree
    filter_input,      \* App.filter_input
    last,              \* history: the event handled last (not program state)
    opened,            \* history: App.commits when the commit popup was opened last
    \* ---- one walk of the row functions (src/ui/diff_view.rs) ----
    r_diff,            \* the FileDiff being rendered
    r_pc,              \* position of the walk
    r_hunk,            \* index of the hunk being walked (1-based)
    r_line,            \* index of the next line of that hunk (1-based)
    old_idx,           \* render_side_by_side_full: old_idx
    new_idx,           \* render_side_by_side_full: new_idx
    r_full,            \* rows walked by render_side_by_side_full after the header
    r_split,           \* rows walked by render_side_by_side after the header
    r_count,           \* file_line_count of r_diff, per mode
    \* ---- one call of get_display_names (src/ui/file_tree.rs) ----
    display_names,     \* None before the call, Some(path -> display name) after
    \* ---- one call of parse_diff (src/git/diff.rs) ----
    parse              \* the locals of parse_diff, and its position

appVars == <<height, diffs, visible_diffs, file_tree, expanded_folders, view_mode,
             diff_mode, focus, content_scroll, sidebar_scroll, file_cursor,
             show_hidden, number_prefix, run_state, highlighter, repo_path,
             commits, popup_cursor, worktrees, current_worktree, filter_input,
             last, opened>>
rowVars == <<r_diff, r_pc, r_hunk, r_line, old_idx, new_idx, r_full, r_split,
             r_count>>
nameVars == <<display_names, parse>>
vars == <<appVars, rowVars, nameVars>>

----------------------------------------------------------------------------
(* Generic helpers *)

Min(a, b) == IF a <= b THEN a ELSE b
Max(a, b) == IF a >= b THEN a ELSE b
\* usize::saturating_sub
SatSub(a, b) == IF a >= b THEN a - b ELSE 0

None == [some |-> FALSE, v |-> 0]
Some(x) == [some |-> TRUE, v |-> x]

RECURSIVE SumSeq(_)
SumSeq(s) == IF s = <<>> THEN 0 ELSE Head(s) + SumSeq(Tail(s))

RECURSIVE Flatten(_)
\* concatenation of a sequence of sequences
Flatten(ss) == IF ss = <<>> THEN <<>> ELSE Head(ss) \o Flatten(Tail(ss))

SelectIdx(s, Test(_)) ==
    LET F[i \in 0..Len(s)] ==
            IF i = 0 THEN <<>>
            ELSE IF Test(s[i]) THEN Append(F[i-1], i) ELSE F[i-1]
    IN F[Len(s)]

----------------------------------------------------------------------------
(* Paths are strings: sequences of character codes (ASCII), so that          *)
(* ordering, prefix tests and splitting are computed as Rust computes them.  *)

SLASH == 47
DOT == 46
Ch == [a |-> 97, b |-> 98, d |-> 100, x |-> 120, y |-> 121, h |-> 104,
       two |-> 50]

\* str::cmp: lexicographic on bytes
RECURSIVE StrLess(_, _)
StrLess(p, q) ==
    IF q = <<>> THEN FALSE
    ELSE IF p = <<>> THEN TRUE
    ELSE IF Head(p) # Head(q) THEN Head(p) < Head(q)
    ELSE StrLess(Tail(p), Tail(q))

\* str::starts_with
StartsWith(s, prefix) ==
    Len(prefix) <= Len(s) /\ SubSeq(s, 1, Len(prefix)) = prefix

\* str::split('/'): the sequence of parts
RECURSIVE Split(_)
Split(s) ==
    LET cut == {i \in 1..Len(s) : s[i] = SLASH}
    IN IF cut = {} THEN <<s>>
       ELSE LET i == CHOOSE j \in cut : \A k \in cut : j <= k
            IN <<SubSeq(s, 1, i - 1)>> \o Split(SubSeq(s, i + 1, Len(s)))

\* parts.join("/")
RECURSIVE Join(_)
Join(parts) ==
    IF parts = <<>> THEN <<>>
    ELSE IF Len(parts) = 1 THEN parts[1]
    ELSE parts[1] \o <<SLASH>> \o Join(Tail(parts))

----------------------------------------------------------------------------
(* Hidden files (src/app.rs:48-58, 1044-1053) *)

HIDDEN_PATTERNS ==
    { <<103,111,46,115,117,109>>,  \* go.sum
      <<112,97,99,107,97,103,101,45,108,111,99,107,46,106,115,111,110>>,  \* package-lock.json
      <<121,97,114,110,46,108,111,99,107>>,  \* yarn.lock
      <<112,110,112,109,45,108,111,99,107,46,121,97,109,108>>,  \* pnpm-lock.yaml
      <<67,97,114,103,111,46,108,111,99,107>>,  \* Cargo.lock
      <<71,101,109,102,105,108,101,46,108,111,99,107>>,  \* Gemfile.lock
      <<112,111,101,116,114,121,46,108,111,99,107>>,  \* poetry.lock
      <<99,111,109,112,111,115,101,114,46,108,111,99,107>>  \* composer.lock
    }

\* is_hidden_file that looks at the file name only
is_hidden_file_name_only(path) ==
    LET parts == Split(path)
    IN \/ StartsWith(parts[Len(parts)], <<DOT>>)
       \/ parts[Len(parts)] \in HIDDEN_PATTERNS

is_hidden_file(path) ==
    LET parts == Split(path)
    IN \/ \E i \in 1..Len(parts) : StartsWith(parts[i], <<DOT>>)
       \/ parts[Len(parts)] \in HIDDEN_PATTERNS

----------------------------------------------------------------------------
(* The diff model (src/git/diff.rs:11-75).  Option<T> is [some, v].         *)
(* LineType is one of "Context", "Added", "Removed", "Header".              *)

DiffLine(t, text, old, new) ==
    [line_type |-> t, content |-> text, old_lineno |-> old, new_lineno |-> new]

(* What compute_diff delivers for one file (parse_diff, then                *)
(* populate_file_contents), described by an edit script: a sequence over    *)
(*   "K" an unchanged line outside every hunk,                              *)
(*   "C" a context line inside a hunk, "R" a removed line, "A" an added one.*)
(* A hunk is a maximal run without "K".  The text of a line is its position *)
(* in the script.  Hunk starts follow the unified-diff header the hunk      *)
(* callback reports: 1-based, and the line BEFORE the hunk when the count   *)
(* on that side is 0.  content is "both", "old", "new" or "none": which of  *)
(* old_content / new_content load_file_lines returned.                      *)
IsOld(op) == op \in {"K", "C", "R"}
IsNew(op) == op \in {"K", "C", "A"}

CountIf(s, lo, hi, Test(_)) == Cardinality({i \in lo..hi : Test(s[i])})

ScriptLine(script, i) ==
    LET op == script[i]
        o == CountIf(script, 1, i - 1, IsOld) + 1
        n == CountIf(script, 1, i - 1, IsNew) + 1
    IN CASE op = "C" -> DiffLine("Context", i, Some(o), Some(n))
         [] op = "R" -> DiffLine("Removed", i, Some(o), None)
         [] op = "A" -> DiffLine("Added", i, None, Some(n))

ScriptHunk(script, s, e) ==
    LET oc == CountIf(script, s, e, IsOld)
        nc == CountIf(script, s, e, IsNew)
        ob == CountIf(script, 1, s - 1, IsOld)
        nb == CountIf(script, 1, s - 1, IsNew)
        os == IF oc = 0 THEN ob ELSE ob + 1
        ns == IF nc = 0 THEN nb ELSE nb + 1
    IN [old_start |-> os, old_count |-> oc, new_start |-> ns, new_count |-> nc,
        header |-> <<os, oc, ns, nc>>,
        lines |-> [k \in 1..(e - s + 1) |-> ScriptLine(script, s + k - 1)]]

RECURSIVE ScriptHunks(_, _)
\* the hunks of script[from..], in order
ScriptHunks(script, from) ==
    LET starts == {i \in from..Len(script) : script[i] # "K"}
    IN IF starts = {} THEN <<>>
       ELSE LET s == CHOOSE i \in starts : \A j \in starts : i <= j
                ends == {i \in s..Len(script) :
                            i = Len(script) \/ script[i + 1] = "K"}
                e == CHOOSE i \in ends : \A j \in ends : i <= j
            IN <<ScriptHunk(script, s, e)>> \o ScriptHunks(script, e + 1)

ScriptContent(script, Side(_)) ==
    LET idx == SelectIdx(script, Side) IN Some(idx)

FileFromScript(path, script, content) ==
    [path |-> path,
     old_content |-> IF content \in {"both", "old"}
                     THEN ScriptContent(script, IsOld) ELSE None,
     new_content |-> IF content \in {"both", "new"}
                     THEN ScriptContent(script, IsNew) ELSE None,
     added |-> CountIf(script, 1, Len(script), LAMBDA op : op = "A"),
     removed |-> CountIf(script, 1, Len(script), LAMBDA op : op = "R"),
     hunks |-> ScriptHunks(script, 1),
     collapsed |-> FALSE,
     is_binary |-> FALSE]

\* a binary delta: no hunk, no line, content never loaded (diff.rs:154-156)
BinaryFile(path) ==
    [path |-> path, old_content |-> None, new_content |-> None,
     added |-> 0, removed |-> 0, hunks |-> <<>>,
     collapsed |-> FALSE, is_binary |-> TRUE]

----------------------------------------------------------------------------
(* Row functions (src/ui/diff_view.rs) *)

\* pair_lines: one (old, new) pair per line
pair_lines(lines) ==
    LET F[i \in 0..Len(lines)] ==
            IF i = 0 THEN <<>>
            ELSE LET line == lines[i] IN
                 CASE line.line_type = "Removed" ->
                        Append(F[i-1], [left |-> Some(line), right |-> None])
                   [] line.line_type = "Added" ->
                        Append(F[i-1], [left |-> None, right |-> Some(line)])
                   [] line.line_type = "Context" ->
                        Append(F[i-1], [left |-> Some(line), right |-> Some(line)])
                   [] OTHER -> F[i-1]
    IN F[Len(lines)]

IndexedLine(line, index) == [line |-> line, index |-> index]

\* pair_lines_with_index: the pairs render_side_by_side draws, one per row
pair_lines_with_index(lines, start_index) ==
    LET F[i \in 0..Len(lines)] ==
            IF i = 0 THEN <<>>
            ELSE LET indexed == IndexedLine(lines[i], start_index + (i - 1)) IN
                 CASE lines[i].line_type = "Removed" ->
                        Append(F[i-1], [left |-> Some(indexed), right |-> None])
                   [] lines[i].line_type = "Added" ->
                        Append(F[i-1], [left |-> None, right |-> Some(indexed)])
                   [] lines[i].line_type = "Context" ->
                        Append(F[i-1], [left |-> Some(indexed), right |-> Some(indexed)])
                   [] OTHER -> F[i-1]
    IN F[Len(lines)]

OptLen(content) == IF content.some THEN Len(content.v) ELSE 0

\* full_line_count with the added / removed counts forgotten
full_line_count_lengths_only(diff) ==
    LET old_len == OptLen(diff.old_content)
        new_len == OptLen(diff.new_content)
    IN IF ~diff.old_content.some /\ ~diff.new_content.some
       THEN SumSeq([h \in 1..Len(diff.hunks) |-> Len(pair_lines(diff.hunks[h].lines))])
       ELSE IF old_len >= new_len THEN old_len
       ELSE new_len

full_line_count(diff) ==
    LET old_len == OptLen(diff.old_content)
        new_len == OptLen(diff.new_content)
    IN IF ~diff.old_content.some /\ ~diff.new_content.some
       THEN SumSeq([h \in 1..Len(diff.hunks) |-> Len(pair_lines(diff.hunks[h].lines))])
       ELSE IF old_len >= new_len THEN old_len + diff.added
       ELSE new_len + diff.removed

\* file_line_count whose SideBySide arm zips each hunk's removed lines with
\* its added lines on shared rows, while Unified gives every line a row
file_line_count_zipped_split(diff, mode) ==
    LET no(lines, t) == Cardinality({i \in 1..Len(lines) : lines[i].line_type = t})
        zipped(lines) == no(lines, "Context")
                         + Max(no(lines, "Removed"), no(lines, "Added"))
    IN IF diff.collapsed \/ diff.is_binary THEN 1
       ELSE IF mode = "Unified"
       THEN 1 + SumSeq([h \in 1..Len(diff.hunks) |->
                           1 + Len(pair_lines(diff.hunks[h].lines))])
       ELSE IF mode = "SideBySide"
       THEN 1 + SumSeq([h \in 1..Len(diff.hunks) |->
                           1 + zipped(diff.hunks[h].lines)])
       ELSE 1 + full_line_count(diff)

\* file_line_count with the hunk header rows forgotten
file_line_count_no_hunk_header(diff, mode) ==
    IF diff.collapsed \/ diff.is_binary THEN 1
    ELSE IF mode \in {"SideBySide", "Unified"}
    THEN 1 + SumSeq([h \in 1..Len(diff.hunks) |->
                        Len(pair_lines(diff.hunks[h].lines))])
    ELSE 1 + full_line_count(diff)

file_line_count(diff, mode) ==
    IF diff.collapsed \/ diff.is_binary THEN 1
    ELSE IF mode \in {"SideBySide", "Unified"}
    THEN 1 + SumSeq([h \in 1..Len(diff.hunks) |->
                        1 + Len(pair_lines(diff.hunks[h].lines))])
    ELSE 1 + full_line_count(diff)

calculate_total_lines(ds, mode) ==
    SumSeq([i \in 1..Len(ds) |-> file_line_count(ds[i], mode)])

----------------------------------------------------------------------------
(* Rows.  A row is [kind, left, right]; a cell is what one column shows:    *)
(* the line number printed (0: blank, as for None and for 0), the text and  *)
(* the line type that styles it.  A blank column is None.                   *)

DisplayNo(lineno) == IF lineno.some /\ lineno.v > 0 THEN lineno.v ELSE 0
Cell(no, text, style) == Some([no |-> no, text |-> text, style |-> style])
HunkRow(hunk) == [kind |-> "hunk", left |-> None, right |-> None]

\* render_side_column for the old (is_old) and the new column
SideCell(indexed, is_old) ==
    IF ~indexed.some THEN None
    ELSE LET l == indexed.v.line
         IN Cell(DisplayNo(IF is_old THEN l.old_lineno ELSE l.new_lineno),
                 l.content, l.line_type)

\* render_side_by_side, the rows it walks for one file after the file header,
\* with a viewport that ends beyond the file
render_side_by_side(diff) ==
    IF diff.collapsed \/ diff.is_binary THEN <<>>
    ELSE LET start(h) == SumSeq([k \in 1..(h - 1) |-> Len(diff.hunks[k].lines)])
             rows(h) ==
                LET pairs == pair_lines_with_index(diff.hunks[h].lines, start(h))
                IN <<HunkRow(diff.hunks[h])>> \o
                   [i \in 1..Len(pairs) |->
                       [kind |-> "line",
                        left |-> SideCell(pairs[i].left, TRUE),
                        right |-> SideCell(pairs[i].right, FALSE)]]
         IN Flatten([h \in 1..Len(diff.hunks) |-> rows(h)])

(* render_side_by_side_full, one row per step.  old_lines / new_lines are   *)
(* the content slices (empty when the content is None).                     *)
has_full_content(diff) == diff.old_content.some \/ diff.new_content.some
old_lines(diff) == IF diff.old_content.some THEN diff.old_content.v ELSE <<>>
new_lines(diff) == IF diff.new_content.some THEN diff.new_content.v ELSE <<>>
\* slice.get(idx), idx 0-based
Get(lines, idx) == IF idx < Len(lines) THEN Some(lines[idx + 1]) ELSE None
UnwrapOr(opt, dflt) == IF opt.some THEN opt.v ELSE dflt

old_target(hunk) == SatSub(hunk.old_start, 1)
new_target(hunk) == SatSub(hunk.new_start, 1)

\* a context-fill row (before a hunk, or after the last one)
FillRow(diff, kind, oi, ni, adv_old, adv_new) ==
    LET ol == Get(old_lines(diff), oi)
        nl == Get(new_lines(diff), ni)
    IN [kind |-> kind,
        left |-> IF ol.some THEN Cell(oi + 1, ol.v, "Context") ELSE None,
        right |-> IF nl.some THEN Cell(ni + 1, nl.v, "Context") ELSE None,
        adv_old |-> adv_old, adv_new |-> adv_new]

\* FullLineRow numbering every line from the cursors instead of the hunk line
FullLineRow_cursor_numbers(diff, line, oi, ni) ==
    LET ot == UnwrapOr(Get(old_lines(diff), oi), line.content)
        nt == UnwrapOr(Get(new_lines(diff), ni), line.content)
        t == line.line_type
    IN [kind |-> "line",
        left |-> IF t \in {"Context", "Removed"}
                 THEN Cell(oi + 1, ot, t) ELSE None,
        right |-> IF t \in {"Context", "Added"}
                  THEN Cell(ni + 1, nt, t) ELSE None,
        adv_old |-> t \in {"Context", "Removed"},
        adv_new |-> t \in {"Context", "Added"}]

\* the row of one hunk line
FullLineRow(diff, line, oi, ni) ==
    LET ot == UnwrapOr(Get(old_lines(diff), oi), line.content)
        nt == UnwrapOr(Get(new_lines(diff), ni), line.content)
        ono == UnwrapOr(line.old_lineno, oi + 1)
        nno == UnwrapOr(line.new_lineno, ni + 1)
        t == line.line_type
    IN [kind |-> "line",
        left |-> IF t \in {"Context", "Removed"}
                 THEN Cell(DisplayNo(Some(ono)), ot, t) ELSE None,
        right |-> IF t \in {"Context", "Added"}
                  THEN Cell(DisplayNo(Some(nno)), nt, t) ELSE None,
        adv_old |-> t \in {"Context", "Removed"},
        adv_new |-> t \in {"Context", "Added"}]

----------------------------------------------------------------------------
(* SpecRows: the row functions applied to one FileDiff *)

MaxScript == 4
Ops == {"K", "C", "R", "A"}
Modes == {"SideBySide", "Unified", "SideBySideFull"}

Scripts == UNION {[1..k -> Ops] : k \in 0..MaxScript}

\* which contents can be loaded for a script: both, none (a load failure on
\* both sides), only the old one (a deleted file), only the new one (an added one)
ContentsOf(script) ==
    {"both", "none"}
    \cup (IF script # <<>> /\ \A i \in 1..Len(script) : script[i] = "R"
          THEN {"old"} ELSE {})
    \cup (IF script # <<>> /\ \A i \in 1..Len(script) : script[i] = "A"
          THEN {"new"} ELSE {})

RowFiles ==
    {[FileFromScript(<<Ch.a>>, sc, c) EXCEPT !.collapsed = col] :
        <<sc, c, col>> \in {t \in Scripts \X {"both", "none", "old", "new"} \X BOOLEAN :
                               t[2] \in ContentsOf(t[1])}}
    \cup {BinaryFile(<<Ch.a>>)}

\* file_line_count for every mode
CountRows ==
    /\ r_pc = "start"
    /\ r_pc' = "split"
    /\ r_count' = [m \in Modes |-> file_line_count(r_diff, m)]
    /\ UNCHANGED <<r_diff, r_hunk, r_line, old_idx, new_idx, r_full, r_split>>
    /\ UNCHANGED <<appVars, nameVars>>

\* render_side_by_side (diff_view.rs:110-185)
RenderSplit ==
    /\ r_pc = "split"
    /\ r_pc' = "header"
    /\ r_split' = render_side_by_side(r_diff)
    /\ UNCHANGED <<r_diff, r_hunk, r_line, old_idx, new_idx, r_full, r_count>>
    /\ UNCHANGED <<appVars, nameVars>>

\* render_side_by_side_full: the file header, collapsed / binary (198-218)
FullHeader ==
    /\ r_pc = "header"
    /\ r_pc' = IF r_diff.collapsed \/ r_diff.is_binary THEN "done"
               ELSE IF r_diff.hunks = <<>> THEN "trail" ELSE "fill"
    /\ old_idx' = 0
    /\ new_idx' = 0
    /\ r_hunk' = 1
    /\ r_line' = 1
    /\ UNCHANGED <<r_diff, r_full, r_split, r_count>>
    /\ UNCHANGED <<appVars, nameVars>>

\* one context-fill row before hunk r_hunk (221-277)
FullFill ==
    /\ r_pc = "fill"
    /\ LET hunk == r_diff.hunks[r_hunk]
           adv_old == old_idx < old_target(hunk)
           adv_new == new_idx < new_target(hunk)
       IN IF has_full_content(r_diff) /\ (adv_old \/ adv_new)
          THEN /\ r_full' = Append(r_full,
                      FillRow(r_diff, "fill", old_idx, new_idx, adv_old, adv_new))
               /\ old_idx' = IF adv_old THEN old_idx + 1 ELSE old_idx
               /\ new_idx' = IF adv_new THEN new_idx + 1 ELSE new_idx
               /\ UNCHANGED <<r_pc, r_line>>
          ELSE /\ r_pc' = "lines"
               /\ r_line' = 1
               /\ UNCHANGED <<r_full, old_idx, new_idx>>
    /\ UNCHANGED <<r_diff, r_hunk, r_split, r_count>>
    /\ UNCHANGED <<appVars, nameVars>>

\* one line of hunk r_hunk, or the end of the hunk (279-431)
FullLine ==
    /\ r_pc = "lines"
    /\ LET hunk == r_diff.hunks[r_hunk] IN
       IF r_line <= Len(hunk.lines)
       THEN LET row == FullLineRow(r_diff, hunk.lines[r_line], old_idx, new_idx)
            IN /\ r_full' = Append(r_full, row)
               /\ old_idx' = IF row.adv_old THEN old_idx + 1 ELSE old_idx
               /\ new_idx' = IF row.adv_new THEN new_idx + 1 ELSE new_idx
               /\ r_line' = r_line + 1
               /\ UNCHANGED <<r_pc, r_hunk>>
       ELSE /\ r_pc' = IF r_hunk < Len(r_diff.hunks) THEN "fill" ELSE "trail"
            /\ r_hunk' = r_hunk + 1
            /\ UNCHANGED <<r_full, old_idx, new_idx, r_line>>
    /\ UNCHANGED <<r_diff, r_split, r_count>>
    /\ UNCHANGED <<appVars, nameVars>>

\* one trailing context-fill row after the last hunk (433-486)
FullTrail ==
    /\ r_pc = "trail"
    /\ LET adv_old == old_idx < Len(old_lines(r_diff))
           adv_new == new_idx < Len(new_lines(r_diff))
       IN IF has_full_content(r_diff) /\ (adv_old \/ adv_new)
          THEN /\ r_full' = Append(r_full,
                      FillRow(r_diff, "trail", old_idx, new_idx, adv_old, adv_new))
               /\ old_idx' = IF adv_old THEN old_idx + 1 ELSE old_idx
               /\ new_idx' = IF adv_new THEN new_idx + 1 ELSE new_idx
               /\ UNCHANGED r_pc
          ELSE /\ r_pc' = "done"
               /\ UNCHANGED <<r_full, old_idx, new_idx>>
    /\ UNCHANGED <<r_diff, r_hunk, r_line, r_split, r_count>>
    /\ UNCHANGED <<appVars, nameVars>>

RowsIdle ==
    /\ r_diff = BinaryFile(<<Ch.a>>)
    /\ r_pc = "idle"
    /\ r_hunk = 1
    /\ r_line = 1
    /\ old_idx = 0
    /\ new_idx = 0
    /\ r_full = <<>>
    /\ r_split = <<>>
    /\ r_count = [m \in Modes |-> 0]

----------------------------------------------------------------------------
(* The file tree (src/ui/file_tree.rs) *)

\* the folder paths of one file path: current_path after each of the first
\* len - 1 parts (file_tree.rs:69-77)
FolderPaths(path) ==
    LET parts == Split(path)
        cur[k \in 0..(Len(parts) - 1)] ==
            IF k = 0 THEN <<>>
            ELSE (IF cur[k-1] # <<>> THEN cur[k-1] \o <<SLASH>> ELSE <<>>) \o parts[k]
    IN [k \in 1..(Len(parts) - 1) |-> cur[k]]

NodeLess(a, b) ==
    \/ StrLess(a.path, b.path)
    \/ /\ a.path = b.path
       /\ \/ a.is_folder /\ ~b.is_folder
          \/ ~a.is_folder /\ ~b.is_folder /\ a.diff_index.v < b.diff_index.v

RECURSIVE SortNodes(_)
\* folder_nodes.extend(all_nodes); sort_by path (stable: folders first on a tie)
SortNodes(nodes) ==
    IF nodes = {} THEN <<>>
    ELSE LET m == CHOOSE n \in nodes : \A o \in nodes \ {n} : NodeLess(n, o)
         IN <<m>> \o SortNodes(nodes \ {m})

\* build_file_tree that adds a file's counts to its parent folder only
build_file_tree_parent_only(ds, expanded) ==
    IF ds = <<>> THEN <<>>
    ELSE
    LET occurrences(i, fp) ==
            Cardinality({k \in {Len(FolderPaths(ds[i].path))} \ {0} :
                            FolderPaths(ds[i].path)[k] = fp})
        folders == UNION {{FolderPaths(ds[i].path)[k] :
                              k \in 1..Len(FolderPaths(ds[i].path))} : i \in 1..Len(ds)}
        file_node(i) ==
            LET parts == Split(ds[i].path) IN
            [name |-> parts[Len(parts)], path |-> ds[i].path, is_folder |-> FALSE,
             depth |-> Len(parts) - 1, added |-> ds[i].added, removed |-> ds[i].removed,
             diff_index |-> Some(i - 1), expanded |-> FALSE,
             is_hidden |-> is_hidden_file(ds[i].path)]
        folder_node(fp) ==
            LET parts == Split(fp) IN
            [name |-> parts[Len(parts)], path |-> fp, is_folder |-> TRUE,
             depth |-> Cardinality({k \in 1..Len(fp) : fp[k] = SLASH}),
             added |-> SumSeq([i \in 1..Len(ds) |-> occurrences(i, fp) * ds[i].added]),
             removed |-> SumSeq([i \in 1..Len(ds) |-> occurrences(i, fp) * ds[i].removed]),
             diff_index |-> None,
             expanded |-> IF fp \in DOMAIN expanded THEN expanded[fp] ELSE TRUE,
             is_hidden |-> is_hidden_file(fp)]
    IN SortNodes({file_node(i) : i \in 1..Len(ds)} \cup {folder_node(fp) : fp \in folders})

\* build_file_tree that numbers the diffs from 1
build_file_tree_one_based(ds, expanded) ==
    IF ds = <<>> THEN <<>>
    ELSE
    LET occurrences(i, fp) ==
            Cardinality({k \in 1..Len(FolderPaths(ds[i].path)) :
                            FolderPaths(ds[i].path)[k] = fp})
        folders == UNION {{FolderPaths(ds[i].path)[k] :
                              k \in 1..Len(FolderPaths(ds[i].path))} : i \in 1..Len(ds)}
        file_node(i) ==
            LET parts == Split(ds[i].path) IN
            [name |-> parts[Len(parts)], path |-> ds[i].path, is_folder |-> FALSE,
             depth |-> Len(parts) - 1, added |-> ds[i].added, removed |-> ds[i].removed,
             diff_index |-> Some(i), expanded |-> FALSE,
             is_hidden |-> is_hidden_file(ds[i].path)]
        folder_node(fp) ==
            LET parts == Split(fp) IN
            [name |-> parts[Len(parts)], path |-> fp, is_folder |-> TRUE,
             depth |-> Cardinality({k \in 1..Len(fp) : fp[k] = SLASH}),
             added |-> SumSeq([i \in 1..Len(ds) |-> occurrences(i, fp) * ds[i].added]),
             removed |-> SumSeq([i \in 1..Len(ds) |-> occurrences(i, fp) * ds[i].removed]),
             diff_index |-> None,
             expanded |-> IF fp \in DOMAIN expanded THEN expanded[fp] ELSE TRUE,
             is_hidden |-> is_hidden_file(fp)]
    IN SortNodes({file_node(i) : i \in 1..Len(ds)} \cup {folder_node(fp) : fp \in folders})

build_file_tree(ds, expanded) ==
    IF ds = <<>> THEN <<>>
    ELSE
    LET occurrences(i, fp) ==
            Cardinality({k \in 1..Len(FolderPaths(ds[i].path)) :
                            FolderPaths(ds[i].path)[k] = fp})
        folders == UNION {{FolderPaths(ds[i].path)[k] :
                              k \in 1..Len(FolderPaths(ds[i].path))} : i \in 1..Len(ds)}
        file_node(i) ==
            LET parts == Split(ds[i].path) IN
            [name |-> parts[Len(parts)], path |-> ds[i].path, is_folder |-> FALSE,
             depth |-> Len(parts) - 1, added |-> ds[i].added, removed |-> ds[i].removed,
             diff_index |-> Some(i - 1), expanded |-> FALSE,
             is_hidden |-> is_hidden_file(ds[i].path)]
        folder_node(fp) ==
            LET parts == Split(fp) IN
            [name |-> parts[Len(parts)], path |-> fp, is_folder |-> TRUE,
             depth |-> Cardinality({k \in 1..Len(fp) : fp[k] = SLASH}),
             added |-> SumSeq([i \in 1..Len(ds) |-> occurrences(i, fp) * ds[i].added]),
             removed |-> SumSeq([i \in 1..Len(ds) |-> occurrences(i, fp) * ds[i].removed]),
             diff_index |-> None,
             expanded |-> IF fp \in DOMAIN expanded THEN expanded[fp] ELSE TRUE,
             is_hidden |-> is_hidden_file(fp)]
    IN SortNodes({file_node(i) : i \in 1..Len(ds)} \cup {folder_node(fp) : fp \in folders})

\* flatten_tree with the folder's bare path as the collapsed prefix
flatten_tree_bare_prefix(nodes) ==
    LET F[i \in 0..Len(nodes)] ==
            IF i = 0 THEN [result |-> <<>>, collapsed_prefixes |-> {}]
            ELSE LET node == nodes[i]
                     before == F[i-1]
                     hidden == \E prefix \in before.collapsed_prefixes :
                                  StartsWith(node.path, prefix) /\ node.path # prefix
                 IN IF hidden THEN before
                    ELSE [result |-> Append(before.result, node),
                          collapsed_prefixes |->
                              IF node.is_folder /\ ~node.expanded
                              THEN before.collapsed_prefixes \cup {node.path}
                              ELSE before.collapsed_prefixes]
    IN F[Len(nodes)].result

\* flatten_tree that keeps one prefix, the last collapsed folder it walked over
flatten_tree_last_prefix(nodes) ==
    LET F[i \in 0..Len(nodes)] ==
            IF i = 0 THEN [result |-> <<>>, collapsed_prefixes |-> {}]
            ELSE LET node == nodes[i]
                     before == F[i-1]
                     hidden == \E prefix \in before.collapsed_prefixes :
                                  StartsWith(node.path, prefix) /\ node.path # prefix
                 IN [result |-> IF hidden THEN before.result
                                ELSE Append(before.result, node),
                     collapsed_prefixes |->
                         IF node.is_folder /\ ~node.expanded
                         THEN {node.path \o <<SLASH>>}
                         ELSE before.collapsed_prefixes]
    IN F[Len(nodes)].result

flatten_tree(nodes) ==
    LET F[i \in 0..Len(nodes)] ==
            IF i = 0 THEN [result |-> <<>>, collapsed_prefixes |-> {}]
            ELSE LET node == nodes[i]
                     before == F[i-1]
                     hidden == \E prefix \in before.collapsed_prefixes :
                                  StartsWith(node.path, prefix) /\ node.path # prefix
                 IN IF hidden THEN before
                    ELSE [result |-> Append(before.result, node),
                          collapsed_prefixes |->
                              IF node.is_folder /\ ~node.expanded
                              THEN before.collapsed_prefixes \cup {node.path \o <<SLASH>>}
                              ELSE before.collapsed_prefixes]
    IN F[Len(nodes)].result

\* str::ends_with
EndsWith(s, suffix) ==
    Len(suffix) <= Len(s) /\ SubSeq(s, Len(s) - Len(suffix) + 1, Len(s)) = suffix

\* diff.path.split('/').last()
basename(path) == Split(path)[Len(Split(path))]

\* parts[i..].join("/"), i counted from 1
TrailingSuffix(path, i) == Join(SubSeq(Split(path), i, Len(Split(path))))

\* find_unique_suffix that compares whole path components
find_unique_suffix_by_components(path, all_paths) ==
    LET n == Len(Split(path))
        matching(i) ==
            Cardinality({k \in 1..Len(all_paths) :
                /\ Len(Split(all_paths[k])) >= n - i + 1
                /\ TrailingSuffix(all_paths[k], Len(Split(all_paths[k])) - (n - i))
                      = TrailingSuffix(path, i)})
        unique == {i \in 1..n : matching(i) = 1}
    IN IF unique = {} THEN path
       ELSE TrailingSuffix(path, CHOOSE i \in unique : \A j \in unique : j <= i)

\* find_unique_suffix (file_tree.rs:186-203): the suffixes from the shortest
\* to the whole path; the first that exactly one of all_paths ends with
find_unique_suffix(path, all_paths) ==
    LET n == Len(Split(path))
        matching(i) ==
            Cardinality({k \in 1..Len(all_paths) :
                            EndsWith(all_paths[k], TrailingSuffix(path, i))})
        unique == {i \in 1..n : matching(i) = 1}
    IN IF unique = {} THEN path
       ELSE TrailingSuffix(path, CHOOSE i \in unique : \A j \in unique : j <= i)

\* get_display_names (file_tree.rs:154-183): the HashMap path -> display name
get_display_names(ds) ==
    LET all == [i \in 1..Len(ds) |-> ds[i].path]
        SameBasename(p) == LET Test(q) == basename(q) = basename(p)
                           IN SelectSeq(all, Test)
    IN [p \in {all[i] : i \in 1..Len(all)} |->
           IF Len(SameBasename(p)) > 1
           THEN find_unique_suffix(p, SameBasename(p))
           ELSE basename(p)]

----------------------------------------------------------------------------
(* App (src/app.rs).  A method is an operator from the App record to the     *)
(* App record after the call.                                              *)

App_file_line_count(diff) ==
    IF diff.collapsed \/ diff.is_binary THEN 1
    ELSE 1 + SumSeq([h \in 1..Len(diff.hunks) |-> 1 + Len(diff.hunks[h].lines)])

\* self.visible_diffs.iter().filter_map(|&i| self.diffs.get(i))
Visible(self) ==
    LET ok == SelectIdx(self.visible_diffs, LAMBDA i : i < Len(self.diffs))
    IN [k \in 1..Len(ok) |-> self.diffs[self.visible_diffs[ok[k]] + 1]]

update_visible_diffs(self) ==
    LET keep == SelectIdx(self.diffs,
                    LAMBDA d : self.show_hidden \/ ~is_hidden_file(d.path))
    IN [self EXCEPT !.visible_diffs = [k \in 1..Len(keep) |-> keep[k] - 1]]

(* max_scroll: total_lines.saturating_sub(self.height as usize - 2).  With   *)
(* height < 2 the subtraction overflows: a build with overflow checks        *)
(* panics (MaxScrollPanics); without them it wraps to at least 2^64 - 2,     *)
(* more than any row total, and the saturating_sub gives 0.                  *)
max_scroll(self) ==
    LET total_lines == calculate_total_lines(Visible(self), self.diff_mode)
    IN IF self.height >= 2 THEN SatSub(total_lines, self.height - 2) ELSE 0

MaxScrollPanics(self, checks) == checks /\ self.height < 2
Panic(self) == [self EXCEPT !.run_state = "panicked"]

\* the start row of each visible file, and the end of the last
Starts(self) ==
    LET vis == Visible(self)
        F[k \in 0..Len(vis)] ==
            IF k = 0 THEN 0 ELSE F[k-1] + App_file_line_count(vis[k])
    IN F

\* get_current_file with the boundary row given to the file that ends there
get_current_file_inclusive(self) ==
    LET vis == Visible(self)
        st == Starts(self)
        hit == {k \in 1..Len(vis) : st[k] >= self.content_scroll}
    IN IF hit = {} THEN None
       ELSE Some(vis[CHOOSE k \in hit : \A j \in hit : k <= j].path)

get_current_file(self) ==
    LET vis == Visible(self)
        st == Starts(self)
        hit == {k \in 1..Len(vis) : st[k] > self.content_scroll}
    IN IF hit = {} THEN None
       ELSE Some(vis[CHOOSE k \in hit : \A j \in hit : k <= j].path)

scroll_content(self, delta, checks) ==
    LET new_scroll == IF delta >= 0 THEN self.content_scroll + delta
                      ELSE SatSub(self.content_scroll, -delta)
    IN IF MaxScrollPanics(self, checks) THEN Panic(self)
       ELSE [self EXCEPT !.content_scroll = Min(new_scroll, max_scroll(self))]

\* next_file that also accepts the boundary the scroll position is on
next_file_or_same(self) ==
    LET vis == Visible(self)
        st == Starts(self)
        hit == {k \in 1..Len(vis) : st[k-1] >= self.content_scroll}
    IN IF hit = {} THEN self
       ELSE [self EXCEPT !.content_scroll =
                st[(CHOOSE k \in hit : \A j \in hit : k <= j) - 1]]

next_file(self) ==
    LET vis == Visible(self)
        st == Starts(self)
        \* the loop tests `line` before adding file k's rows: st[k-1], k = 1..len
        hit == {k \in 1..Len(vis) : st[k-1] > self.content_scroll}
    IN IF hit = {} THEN self
       ELSE [self EXCEPT !.content_scroll =
                st[(CHOOSE k \in hit : \A j \in hit : k <= j) - 1]]

prev_file(self) ==
    LET vis == Visible(self)
        st == Starts(self)
        hit == {k \in 1..Len(vis) : st[k-1] < self.content_scroll}
    IN IF hit = {} THEN [self EXCEPT !.content_scroll = 0]
       ELSE [self EXCEPT !.content_scroll =
                st[(CHOOSE k \in hit : \A j \in hit : k >= j) - 1]]

RECURSIVE Repeat(_, _, _)
Repeat(Op(_), n, self) == IF n = 0 THEN self ELSE Repeat(Op, n - 1, Op(self))

toggle_current_file(self) ==
    LET cur == get_current_file(self)
        found == {i \in 1..Len(self.diffs) : cur.some /\ self.diffs[i].path = cur.v}
    IN IF found = {} THEN self
       ELSE LET i == CHOOSE j \in found : \A k \in found : j <= k
            IN [self EXCEPT !.diffs[i].collapsed = ~self.diffs[i].collapsed]

\* toggle_all_files that flips every file's own flag
toggle_all_files_each(self) ==
    [self EXCEPT !.diffs =
        [i \in 1..Len(self.diffs) |->
            [self.diffs[i] EXCEPT !.collapsed = ~self.diffs[i].collapsed]]]

toggle_all_files(self) ==
    LET all_collapsed == \A i \in 1..Len(self.diffs) : self.diffs[i].collapsed
    IN [self EXCEPT !.diffs =
           [i \in 1..Len(self.diffs) |->
               [self.diffs[i] EXCEPT !.collapsed = ~all_collapsed]]]

sidebar_len(self) == Len(flatten_tree(self.file_tree))

sidebar_visible_height(self) == SatSub(SatSub(self.height, 2), 2)

\* ensure_sidebar_cursor_visible that always scrolls the cursor to the top row
ensure_sidebar_cursor_visible_at_top(self, total) ==
    LET visible == sidebar_visible_height(self)
    IN IF visible = 0 THEN self
       ELSE [self EXCEPT !.sidebar_scroll = Min(self.file_cursor, SatSub(total, visible))]

ensure_sidebar_cursor_visible(self, total) ==
    LET visible == sidebar_visible_height(self)
        scroll == IF self.file_cursor < self.sidebar_scroll THEN self.file_cursor
                  ELSE IF self.file_cursor >= self.sidebar_scroll + visible
                  THEN self.file_cursor + 1 - visible
                  ELSE self.sidebar_scroll
    IN IF visible = 0 THEN self
       ELSE [self EXCEPT !.sidebar_scroll = Min(scroll, SatSub(total, visible))]

\* set_sidebar_cursor without the clamp to the last row
set_sidebar_cursor_unclamped(self, index) ==
    LET total == sidebar_len(self)
    IN IF total = 0
       THEN [self EXCEPT !.file_cursor = 0, !.sidebar_scroll = 0]
       ELSE ensure_sidebar_cursor_visible([self EXCEPT !.file_cursor = index], total)

set_sidebar_cursor(self, index) ==
    LET total == sidebar_len(self)
    IN IF total = 0
       THEN [self EXCEPT !.file_cursor = 0, !.sidebar_scroll = 0]
       ELSE ensure_sidebar_cursor_visible(
                [self EXCEPT !.file_cursor = Min(index, SatSub(total, 1))], total)

move_sidebar_cursor(self, delta) ==
    LET total == sidebar_len(self)
        new_cursor == IF delta >= 0 THEN self.file_cursor + delta
                      ELSE SatSub(self.file_cursor, -delta)
    IN IF total = 0
       THEN [self EXCEPT !.file_cursor = 0, !.sidebar_scroll = 0]
       ELSE ensure_sidebar_cursor_visible(
                [self EXCEPT !.file_cursor = Min(new_cursor, SatSub(total, 1))], total)

scroll_sidebar(self, delta) ==
    LET total == sidebar_len(self)
        visible == sidebar_visible_height(self)
        new_scroll == IF delta >= 0 THEN self.sidebar_scroll + delta
                      ELSE SatSub(self.sidebar_scroll, -delta)
    IN IF total <= visible \/ visible = 0
       THEN [self EXCEPT !.sidebar_scroll = 0]
       ELSE [self EXCEPT !.sidebar_scroll = Min(new_scroll, SatSub(total, visible))]

restore_sidebar_cursor(self, path) ==
    LET nodes == flatten_tree(self.file_tree)
        at == {i \in 1..Len(nodes) : nodes[i].path = path}
    IN IF nodes = <<>>
       THEN [self EXCEPT !.file_cursor = 0, !.sidebar_scroll = 0]
       ELSE ensure_sidebar_cursor_visible(
                [self EXCEPT !.file_cursor =
                    IF at # {} THEN (CHOOSE i \in at : \A j \in at : i <= j) - 1
                    ELSE Min(self.file_cursor, SatSub(Len(nodes), 1))],
                Len(nodes))

\* expanded_folders.entry(path).or_insert(true), then the value set to v
EntrySet(expanded, path, v) ==
    [p \in DOMAIN expanded \cup {path} |-> IF p = path THEN v ELSE expanded[p]]
\* the entry read with collapsed as the value of a folder never toggled
EntryGet_default_collapsed(expanded, path) ==
    IF path \in DOMAIN expanded THEN expanded[path] ELSE FALSE
EntryGet(expanded, path) ==
    IF path \in DOMAIN expanded THEN expanded[path] ELSE TRUE

\* the folder branch shared by toggle_sidebar_node, jump_to_sidebar_selection and
\* handle_sidebar_click: set the entry, rebuild the tree, restore the cursor
SetFolder(self, path, v) ==
    LET map == EntrySet(self.expanded_folders, path, v)
    IN restore_sidebar_cursor(
           [self EXCEPT !.expanded_folders = map,
                        !.file_tree = build_file_tree(self.diffs, map)], path)

toggle_sidebar_node(self) ==
    LET nodes == flatten_tree(self.file_tree)
    IN IF self.file_cursor >= Len(nodes) THEN self
       ELSE LET node == nodes[self.file_cursor + 1] IN
            IF node.is_folder
            THEN SetFolder(self, node.path, ~EntryGet(self.expanded_folders, node.path))
            ELSE IF node.diff_index.some /\ node.diff_index.v < Len(self.diffs)
            THEN [self EXCEPT !.diffs[node.diff_index.v + 1].collapsed =
                                 ~self.diffs[node.diff_index.v + 1].collapsed]
            ELSE self

\* scroll_to_diff_index without the clamp to max_scroll
scroll_to_diff_index_unclamped(self, diff_index, checks) ==
    LET at == {k \in 1..Len(self.visible_diffs) :
                  /\ self.visible_diffs[k] < Len(self.diffs)
                  /\ self.visible_diffs[k] = diff_index}
    IN IF at = {} THEN self
       ELSE LET k == CHOOSE i \in at : \A j \in at : i <= j
            IN [self EXCEPT !.content_scroll = Starts(self)[k-1]]

scroll_to_diff_index(self, diff_index, checks) ==
    LET at == {k \in 1..Len(self.visible_diffs) :
                  /\ self.visible_diffs[k] < Len(self.diffs)
                  /\ self.visible_diffs[k] = diff_index}
    IN IF at = {} THEN self
       ELSE IF MaxScrollPanics(self, checks) THEN Panic(self)
       ELSE LET k == CHOOSE i \in at : \A j \in at : i <= j
            IN [self EXCEPT !.content_scroll = Min(Starts(self)[k-1], max_scroll(self))]

jump_to_sidebar_selection(self, checks) ==
    LET nodes == flatten_tree(self.file_tree)
    IN IF self.file_cursor >= Len(nodes) THEN self
       ELSE LET node == nodes[self.file_cursor + 1] IN
            IF node.is_folder
            THEN IF ~EntryGet(self.expanded_folders, node.path)
                 THEN SetFolder(self, node.path, TRUE)
                 ELSE [self EXCEPT !.expanded_folders =
                          EntrySet(self.expanded_folders, node.path, TRUE)]
            ELSE IF node.diff_index.some
            THEN scroll_to_diff_index(self, node.diff_index.v, checks)
            ELSE self

handle_sidebar_click(self, row, checks) ==
    LET inner_top == 2
        inner_height == SatSub(SatSub(self.height, 2), 2)
        index == self.sidebar_scroll + (row - inner_top)
        nodes == flatten_tree(self.file_tree)
    IN IF row < inner_top \/ row >= inner_top + inner_height THEN self
       ELSE IF index >= Len(nodes) THEN self
       ELSE LET node == nodes[index + 1]
                moved == set_sidebar_cursor(self, index)
            IN IF node.is_folder
               THEN SetFolder(moved, node.path,
                              ~EntryGet(moved.expanded_folders, node.path))
               ELSE IF node.diff_index.some
               THEN scroll_to_diff_index(moved, node.diff_index.v, checks)
               ELSE moved

\* Highlighter (src/syntax.rs).  A highlighted line is the list of tokens
\* do_highlight cuts the line into; the tokens carry the line's text, here as
\* one token.  The cache maps a cache key to the lines highlighted for it.
Token(text) == [text |-> text]
do_highlight(lines) == [i \in 1..Len(lines) |-> <<Token(lines[i])>>]

\* highlight_lines (55-69): the cache after the call
highlight_lines(cache, cache_key, lines) ==
    IF cache_key \in DOMAIN cache /\ Len(cache[cache_key]) = Len(lines)
    THEN cache
    ELSE [k \in DOMAIN cache \cup {cache_key} |->
             IF k = cache_key THEN do_highlight(lines) ELSE cache[k]]

clear_cache == <<>>

\* the cached line get_line returns (183-190), None when it highlights on demand
cached_line(cache, cache_key, line_index) ==
    IF cache_key \in DOMAIN cache /\ line_index < Len(cache[cache_key])
    THEN Some(cache[cache_key][line_index + 1]) ELSE None

get_line(cache, cache_key, line_index, line_content) ==
    IF cached_line(cache, cache_key, line_index).some
    THEN cached_line(cache, cache_key, line_index).v
    ELSE do_highlight(<<line_content>>)[1]

\* the text of every hunk line of a file, in order
HunkTexts(diff) ==
    Flatten([h \in 1..Len(diff.hunks) |->
                [l \in 1..Len(diff.hunks[h].lines) |-> diff.hunks[h].lines[l].content]])

\* prime_highlight_cache (218-235), from the cache it finds
prime_highlight_cache(ds, cache) ==
    LET F[i \in 0..Len(ds)] ==
            IF i = 0 THEN cache
            ELSE LET before == F[i-1]
                     lines == HunkTexts(ds[i])
                 IN IF ds[i].is_binary \/ lines = <<>> THEN before
                    ELSE highlight_lines(before, ds[i].path, lines)
    IN F[Len(ds)]

\* reload_diffs that primes the cache without clearing it
reload_diffs_without_clear(self, new_diffs) ==
    LET tree == build_file_tree(new_diffs, self.expanded_folders)
        s1 == [self EXCEPT !.diffs = new_diffs, !.file_tree = tree]
        s2 == update_visible_diffs(set_sidebar_cursor(s1, s1.file_cursor))
    IN [s2 EXCEPT !.highlighter = prime_highlight_cache(new_diffs, self.highlighter)]

\* reload_diffs that starts the rebuilt tree from an empty folder map
reload_diffs_fresh_folders(self, new_diffs) ==
    LET tree == build_file_tree(new_diffs, <<>>)
        s1 == [self EXCEPT !.diffs = new_diffs, !.file_tree = tree,
                           !.expanded_folders = <<>>]
        s2 == update_visible_diffs(set_sidebar_cursor(s1, s1.file_cursor))
    IN [s2 EXCEPT !.highlighter = prime_highlight_cache(new_diffs, clear_cache)]

\* reload_diffs, new_diffs being what compute_diff returns (or the default,
\* the empty list, on an error)
reload_diffs(self, new_diffs) ==
    LET tree == build_file_tree(new_diffs, self.expanded_folders)
        s1 == [self EXCEPT !.diffs = new_diffs, !.file_tree = tree]
        s2 == update_visible_diffs(set_sidebar_cursor(s1, s1.file_cursor))
    IN [s2 EXCEPT !.highlighter = prime_highlight_cache(new_diffs, clear_cache)]

----------------------------------------------------------------------------
(* The inputs of the App specification *)

\* the prefix count typed before a key is capped (any usize in the code)
MaxCount == 2
MOUSE_SCROLL_LINES == 5
\* terminal heights: 1 (no content row; height - 2 overflows) and 6 (4 content
\* rows, 2 sidebar rows)
Heights == {1, 6}
\* mouse rows of a click: the sidebar's border row and its first two rows
ClickRows == 1..3
\* whether the build checks arithmetic overflow: it decides a step only where
\* height - 2 overflows
Builds == IF height < 2 THEN BOOLEAN ELSE {FALSE}

PathH == <<DOT, Ch.h>>                \* ".h", a hidden file
PathDX == <<Ch.d, SLASH, Ch.x>>       \* "d/x"

FileH == FileFromScript(PathH, <<"A">>, "both")
FileDX == FileFromScript(PathDX, <<"C", "A">>, "both")

\* what compute_diff can return at a reload: the repository and the working
\* tree change between reloads, and an error gives the empty list
DiffSets == {<<FileH, FileDX>>, <<FileDX>>, <<>>}

----------------------------------------------------------------------------
(* The App specification: the event loop (app.rs:255-302) *)

Self ==
    [height |-> height, diffs |-> diffs, visible_diffs |-> visible_diffs,
     file_tree |-> file_tree, expanded_folders |-> expanded_folders,
     view_mode |-> view_mode, diff_mode |-> diff_mode, focus |-> focus,
     content_scroll |-> content_scroll, sidebar_scroll |-> sidebar_scroll,
     file_cursor |-> file_cursor, show_hidden |-> show_hidden,
     number_prefix |-> number_prefix,
     run_state |-> run_state, highlighter |-> highlighter,
     repo_path |-> repo_path, commits |-> commits, popup_cursor |-> popup_cursor,
     worktrees |-> worktrees, current_worktree |-> current_worktree,
     filter_input |-> filter_input]

Apply(new) ==
    /\ height' = new.height
    /\ diffs' = new.diffs
    /\ visible_diffs' = new.visible_diffs
    /\ file_tree' = new.file_tree
    /\ expanded_folders' = new.expanded_folders
    /\ view_mode' = new.view_mode
    /\ diff_mode' = new.diff_mode
    /\ focus' = new.focus
    /\ content_scroll' = new.content_scroll
    /\ sidebar_scroll' = new.sidebar_scroll
    /\ file_cursor' = new.file_cursor
    /\ show_hidden' = new.show_hidden
    /\ number_prefix' = new.number_prefix
    /\ run_state' = new.run_state
    /\ highlighter' = new.highlighter
    /\ repo_path' = new.repo_path
    /\ commits' = new.commits
    /\ popup_cursor' = new.popup_cursor
    /\ worktrees' = new.worktrees
    /\ current_worktree' = new.current_worktree
    /\ filter_input' = new.filter_input

\* the events the history variable tells apart
Tracked == {"select", "reload", "sb_cursor", "sb_scroll", "sb_toggle"}
Event(ev, arg) ==
    IF ev \in Tracked THEN [ev |-> ev, arg |-> arg] ELSE [ev |-> "other", arg |-> 0]

Step(new, ev, arg) ==
    /\ Apply(new)
    /\ last' = Event(ev, arg)
    /\ opened' = IF ev = "c" THEN new.commits ELSE opened
    /\ UNCHANGED <<rowVars, nameVars>>

\* a path at which Repository::discover finds nothing
NoRepo ==
    [discoverable |-> FALSE, base |-> FALSE, head |-> FALSE, dirty |-> FALSE,
     ahead |-> 0, head_to_workdir |-> <<>>, base_to_workdir |-> <<>>,
     base_to_head |-> <<>>]

\* App::new (app.rs:119-157): the defaults, then load_data
NewApp ==
    [height |-> 0, diffs |-> <<>>, visible_diffs |-> <<>>, file_tree |-> <<>>,
     expanded_folders |-> <<>>, view_mode |-> "Diff", diff_mode |-> "SideBySide",
     focus |-> "Content", content_scroll |-> 0, sidebar_scroll |-> 0,
     file_cursor |-> 0, show_hidden |-> FALSE,
     number_prefix |-> None, run_state |-> "running", highlighter |-> <<>>,
     repo_path |-> NoRepo, commits |-> <<>>, popup_cursor |-> 0,
     worktrees |-> <<>>, current_worktree |-> 0, filter_input |-> <<>>]

AppIs(self) ==
    /\ height = self.height
    /\ diffs = self.diffs
    /\ visible_diffs = self.visible_diffs
    /\ file_tree = self.file_tree
    /\ expanded_folders = self.expanded_folders
    /\ view_mode = self.view_mode
    /\ diff_mode = self.diff_mode
    /\ focus = self.focus
    /\ content_scroll = self.content_scroll
    /\ sidebar_scroll = self.sidebar_scroll
    /\ file_cursor = self.file_cursor
    /\ show_hidden = self.show_hidden
    /\ number_prefix = self.number_prefix
    /\ run_state = self.run_state
    /\ highlighter = self.highlighter
    /\ repo_path = self.repo_path
    /\ commits = self.commits
    /\ popup_cursor = self.popup_cursor
    /\ worktrees = self.worktrees
    /\ current_worktree = self.current_worktree
    /\ filter_input = self.filter_input
    /\ opened = <<>>
    /\ display_names = None
    /\ parse = [pc |-> "idle"]

\* after App::new and the first draw, which sets height (app.rs:267-271)
Init ==
    /\ \E d \in DiffSets, h \in Heights :
           AppIs([reload_diffs(NewApp, d) EXCEPT !.height = h])
    /\ last = Event("init", 0)
    /\ RowsIdle

Running == run_state = "running"
InDiff == Running /\ view_mode = "Diff"

\* let (count, had_prefix) = match self.number_prefix.take()
count == IF number_prefix.some THEN number_prefix.v ELSE 1
had_prefix == number_prefix.some
Taken == [Self EXCEPT !.number_prefix = None]

\* the node under the sidebar cursor, if any
CursorNode(self) ==
    LET nodes == flatten_tree(self.file_tree)
    IN IF self.file_cursor < Len(nodes) THEN Some(nodes[self.file_cursor + 1]) ELSE None

\* a digit extends the prefix (app.rs:466-472)
KeyDigit(d) ==
    /\ InDiff
    /\ LET v == (IF number_prefix.some THEN number_prefix.v ELSE 0) * 10 + d
       IN /\ v <= MaxCount
          /\ Step([Self EXCEPT !.number_prefix = Some(v)], "digit", 0)

\* 'q', Esc (481-482)
KeyQuit ==
    /\ InDiff
    /\ Step([Taken EXCEPT !.run_state = "quit"], "quit", 0)

\* 'j', Down (485-491)
KeyDown(checks) ==
    /\ InDiff
    /\ IF focus = "Sidebar"
       THEN Step(move_sidebar_cursor(Taken, count), "sb_cursor", 0)
       ELSE Step(scroll_content(Taken, count, checks), "scroll", 0)

\* 'k', Up (492-498)
KeyUp(checks) ==
    /\ InDiff
    /\ IF focus = "Sidebar"
       THEN Step(move_sidebar_cursor(Taken, -count), "sb_cursor", 0)
       ELSE Step(scroll_content(Taken, -count, checks), "scroll", 0)

\* Ctrl-d (499-506)
KeyCtrlD(checks) ==
    /\ InDiff
    /\ LET page == height \div 2 IN
       IF focus = "Sidebar"
       THEN Step(scroll_sidebar(Taken, page * count), "sb_scroll", 0)
       ELSE Step(scroll_content(Taken, page * count, checks), "scroll", 0)

\* Ctrl-u (507-514)
KeyCtrlU(checks) ==
    /\ InDiff
    /\ LET page == height \div 2 IN
       IF focus = "Sidebar"
       THEN Step(scroll_sidebar(Taken, (-page) * count), "sb_scroll", 0)
       ELSE Step(scroll_content(Taken, (-page) * count, checks), "scroll", 0)

\* 'g' (515-521)
KeyTop ==
    /\ InDiff
    /\ IF focus = "Sidebar"
       THEN Step(set_sidebar_cursor(Taken, 0), "sb_cursor", 0)
       ELSE Step([Taken EXCEPT !.content_scroll = 0], "scroll", 0)

\* 'G' (522-539)
KeyBottom(checks) ==
    /\ InDiff
    /\ IF focus = "Sidebar"
       THEN LET total == sidebar_len(Taken)
                target == IF had_prefix THEN SatSub(count, 1) ELSE SatSub(total, 1)
            IN IF total > 0
               THEN Step(set_sidebar_cursor(Taken, Min(target, SatSub(total, 1))),
                         "sb_cursor", 0)
               ELSE Step(Taken, "G", 0)
       ELSE IF MaxScrollPanics(Taken, checks) THEN Step(Panic(Taken), "G", 0)
       ELSE IF had_prefix
       THEN Step([Taken EXCEPT !.content_scroll =
                     Min(SatSub(count, 1), max_scroll(Taken))], "G", 0)
       ELSE Step([Taken EXCEPT !.content_scroll = max_scroll(Taken)], "G", 0)

\* 'n' (540-544)
KeyNextFile ==
    /\ InDiff
    /\ Step(Repeat(next_file, count, Taken), "n", 0)

\* 'N' (545-549)
KeyPrevFile ==
    /\ InDiff
    /\ Step(Repeat(prev_file, count, Taken), "N", 0)

\* Tab (552-557)
KeyTab ==
    /\ InDiff
    /\ Step([Taken EXCEPT !.focus = IF focus = "Content" THEN "Sidebar" ELSE "Content"],
            "tab", 0)

\* 'u' (560-565)
KeyMode ==
    /\ InDiff
    /\ Step([Taken EXCEPT !.diff_mode =
                IF diff_mode = "SideBySide" THEN "Unified" ELSE "SideBySide"], "u", 0)

\* 'x' (566-573): context_lines cycles 3, 1, 0; the value is read only by
\* compute_diff, whose result at the new value is the input new_diffs
KeyContext(new_diffs) ==
    /\ InDiff
    /\ Step(reload_diffs(Taken, new_diffs), "reload", 0)

\* 'h' (574-577)
KeyHidden ==
    /\ InDiff
    /\ Step(update_visible_diffs([Taken EXCEPT !.show_hidden = ~show_hidden]), "h", 0)

\* ' ' (578-584)
KeySpace ==
    /\ InDiff
    /\ IF focus = "Sidebar"
       THEN Step(toggle_sidebar_node(Taken),
                 IF CursorNode(Taken).some /\ CursorNode(Taken).v.is_folder
                 THEN "sb_toggle" ELSE "collapse", 0)
       ELSE Step(toggle_current_file(Taken), "collapse", 0)

\* Enter (585-589)
KeyEnter(checks) ==
    /\ InDiff
    /\ IF focus = "Sidebar"
       THEN LET node == CursorNode(Taken) IN
            IF node.some /\ ~node.v.is_folder /\ node.v.diff_index.some
            THEN Step(jump_to_sidebar_selection(Taken, checks),
                      "select", node.v.diff_index.v)
            ELSE Step(jump_to_sidebar_selection(Taken, checks), "sb_cursor", 0)
       ELSE Step(Taken, "enter", 0)

\* 'z' (590-592)
KeyCollapseAll ==
    /\ InDiff
    /\ Step(toggle_all_files(Taken), "collapse", 0)

\* 'c' (595-598)
KeyCommits ==
    /\ InDiff
    /\ Step([Taken EXCEPT !.view_mode = "CommitFilter", !.popup_cursor = 0], "c", 0)

\* any other key: only the prefix is taken (612)
KeyOther ==
    /\ InDiff
    /\ number_prefix.some
    /\ Step(Taken, "key", 0)

\* handle_commit_filter_key: Esc (621-623)
CommitEsc ==
    /\ Running
    /\ view_mode = "CommitFilter"
    /\ Step([Self EXCEPT !.view_mode = "Diff"], "esc", 0)

\* handle_commit_filter_key: Enter (624-627)
CommitEnter(new_diffs) ==
    /\ Running
    /\ view_mode = "CommitFilter"
    /\ Step(reload_diffs([Self EXCEPT !.view_mode = "Diff"], new_diffs), "reload", 0)

\* handle_mouse: ScrollDown (744-750)
MouseScrollDown(in_sidebar, checks) ==
    /\ Running
    /\ IF in_sidebar
       THEN Step(scroll_sidebar(Self, MOUSE_SCROLL_LINES), "sb_scroll", 0)
       ELSE Step(scroll_content(Self, MOUSE_SCROLL_LINES, checks), "scroll", 0)

\* handle_mouse: ScrollUp (751-757)
MouseScrollUp(in_sidebar, checks) ==
    /\ Running
    /\ IF in_sidebar
       THEN Step(scroll_sidebar(Self, -MOUSE_SCROLL_LINES), "sb_scroll", 0)
       ELSE Step(scroll_content(Self, -MOUSE_SCROLL_LINES, checks), "scroll", 0)

\* the node a click on `row` hits, if any (handle_sidebar_click's early returns)
ClickedNode(self, row) ==
    LET nodes == flatten_tree(self.file_tree)
        index == self.sidebar_scroll + (row - 2)
    IN IF row < 2 \/ row >= 2 + sidebar_visible_height(self) \/ index >= Len(nodes)
       THEN None ELSE Some(nodes[index + 1])

\* handle_mouse: Down(Left) (758-766)
MouseClick(in_sidebar, row, checks) ==
    /\ Running
    /\ IF in_sidebar
       THEN LET focused == [Self EXCEPT !.focus = "Sidebar"]
                node == ClickedNode(focused, row)
            IN Step(handle_sidebar_click(focused, row, checks),
                    IF ~node.some THEN "click"
                    ELSE IF node.v.is_folder THEN "sb_toggle" ELSE "select",
                    IF node.some /\ node.v.diff_index.some
                    THEN node.v.diff_index.v ELSE 0)
       ELSE Step([Self EXCEPT !.focus = "Content"], "click", 0)

\* Event::Resize, and the draw that follows (app.rs:267-271, 284-287)
Resize(h) ==
    /\ Running
    /\ h # height
    /\ Step([Self EXCEPT !.height = h], "resize", 0)

Next ==
    \/ \E d \in 0..9 : KeyDigit(d)
    \/ KeyQuit
    \/ \E checks \in Builds : KeyDown(checks)
    \/ \E checks \in Builds : KeyUp(checks)
    \/ \E checks \in Builds : KeyCtrlD(checks)
    \/ \E checks \in Builds : KeyCtrlU(checks)
    \/ KeyTop
    \/ \E checks \in Builds : KeyBottom(checks)
    \/ KeyNextFile
    \/ KeyPrevFile
    \/ KeyTab
    \/ KeyMode
    \/ \E d \in DiffSets : KeyContext(d)
    \/ KeyHidden
    \/ KeySpace
    \/ \E checks \in Builds : KeyEnter(checks)
    \/ KeyCollapseAll
    \/ KeyCommits
    \/ KeyOther
    \/ CommitEsc
    \/ \E d \in DiffSets : CommitEnter(d)
    \/ \E s \in BOOLEAN, checks \in Builds : MouseScrollDown(s, checks)
    \/ \E s \in BOOLEAN, checks \in Builds : MouseScrollUp(s, checks)
    \/ \E s \in BOOLEAN, row \in ClickRows, checks \in Builds : MouseClick(s, row, checks)
    \/ \E h \in Heights : Resize(h)

Spec == Init /\ [][Next]_vars

----------------------------------------------------------------------------
(* SpecRows *)

RowsInit ==
    /\ AppIs(NewApp)
    /\ last = Event("init", 0)
    /\ r_diff \in RowFiles
    /\ r_pc = "start"
    /\ r_hunk = 1
    /\ r_line = 1
    /\ old_idx = 0
    /\ new_idx = 0
    /\ r_full = <<>>
    /\ r_split = <<>>
    /\ r_count = [m \in Modes |-> 0]

RowsNext ==
    \/ CountRows
    \/ RenderSplit
    \/ FullHeader
    \/ FullFill
    \/ FullLine
    \/ FullTrail

SpecRows == RowsInit /\ [][RowsNext]_vars

----------------------------------------------------------------------------
(* SpecStale: the row functions applied to a FileDiff one side of which did  *)
(* not load.  load_tree_lines / load_workdir_lines return None for a blob    *)
(* that is not UTF-8 or a file that cannot be read, whatever the hunks git   *)
(* reported for it, so the hunks' starts can lie beyond the content held.    *)

StaleFiles ==
    {FileFromScript(<<Ch.a>>, sc, c) : <<sc, c>> \in Scripts \X {"old", "new"}}

StaleInit ==
    /\ AppIs(NewApp)
    /\ last = Event("init", 0)
    /\ r_diff \in StaleFiles
    /\ r_pc = "start"
    /\ r_hunk = 1
    /\ r_line = 1
    /\ old_idx = 0
    /\ new_idx = 0
    /\ r_full = <<>>
    /\ r_split = <<>>
    /\ r_count = [m \in Modes |-> 0]

SpecStale == StaleInit /\ [][RowsNext]_vars

----------------------------------------------------------------------------
(* SpecCache: the highlight cache over reloads that bring back the same path *)
(* with the same number of lines and other text (the file was edited, or the *)
(* context or the commit selection changed, between two reloads).            *)

\* diff with the text of every line replaced by another text
Edited(diff, k) ==
    [diff EXCEPT
        !.old_content = IF @.some THEN Some([i \in 1..Len(@.v) |-> @.v[i] + k]) ELSE @,
        !.new_content = IF @.some THEN Some([i \in 1..Len(@.v) |-> @.v[i] + k]) ELSE @,
        !.hunks = [h \in 1..Len(@) |->
                      [@[h] EXCEPT !.lines = [l \in 1..Len(@) |->
                                                 [@[l] EXCEPT !.content = @ + k]]]]]

CacheFirstDiffs == <<FileH, FileDX>>
CacheDiffSets ==
    {CacheFirstDiffs,
     <<FileH, Edited(FileDX, 10)>>,
     <<Edited(FileH, 10), FileDX>>,
     <<FileDX>>,
     <<Edited(FileDX, 10)>>,
     <<BinaryFile(PathDX)>>,
     <<>>}

\* format!("{}::full::old", ..) and format!("{}::full::new", ..)
FULL_OLD == <<58, 58, 102, 117, 108, 108, 58, 58, 111, 108, 100>>
FULL_NEW == <<58, 58, 102, 117, 108, 108, 58, 58, 110, 101, 119>>

\* the get_line calls the renderers make for an open file: [key, index, content].
\* render_unified and render_side_by_side ask under the path with the line's
\* index among the file's hunk lines; render_side_by_side_full asks under the
\* path with a suffix, with the content cursor as index
Lookups(diff) ==
    IF diff.collapsed \/ diff.is_binary THEN {}
    ELSE {[key |-> diff.path, index |-> i - 1, content |-> HunkTexts(diff)[i]] :
             i \in 1..Len(HunkTexts(diff))}
         \cup {[key |-> diff.path \o FULL_OLD, index |-> i - 1,
                content |-> old_lines(diff)[i]] : i \in 1..Len(old_lines(diff))}
         \cup {[key |-> diff.path \o FULL_NEW, index |-> i - 1,
                content |-> new_lines(diff)[i]] : i \in 1..Len(new_lines(diff))}

\* App::new in a repository whose diff is CacheFirstDiffs, then the first draw
CacheInit ==
    /\ \E h \in Heights \ {1} : AppIs([reload_diffs(NewApp, CacheFirstDiffs) EXCEPT !.height = h])
    /\ last = Event("init", 0)
    /\ RowsIdle

CacheNext ==
    \/ \E d \in CacheDiffSets : KeyContext(d)
    \/ KeyCommits
    \/ CommitEsc
    \/ \E d \in CacheDiffSets : CommitEnter(d)
    \/ KeyMode
    \/ KeyHidden
    \/ KeySpace
    \/ KeyNextFile

SpecCache == CacheInit /\ [][CacheNext]_vars

----------------------------------------------------------------------------
(* SpecSession: one run of the process, from main to its exit, on a given    *)
(* repository, with the commit filter popup. The repository does not change  *)
(* during the run and terminal operations succeed.                           *)

Ok(v) == [ok |-> TRUE, v |-> v]
Err == [ok |-> FALSE, v |-> <<>>]
unwrap_or_default(r) == IF r.ok THEN r.v ELSE <<>>

\* Commit (commits.rs:10-24); full_hash 0 is the empty string of the
\* uncommitted entry
Commit(full_hash, is_uncommitted) ==
    [full_hash |-> full_hash, selected |-> TRUE, is_uncommitted |-> is_uncommitted]

\* list_commits (commits.rs:30-92): the uncommitted entry, then the commits
\* of HEAD that the base does not reach, all selected
list_commits(repo) ==
    IF ~repo.discoverable THEN Err
    ELSE LET uncommitted == IF repo.dirty THEN <<Commit(0, TRUE)>> ELSE <<>>
         IN IF ~repo.base \/ ~repo.head THEN Ok(uncommitted)
            ELSE Ok(uncommitted \o [i \in 1..repo.ahead |-> Commit(i, FALSE)])

\* compute_diff (diff.rs:85-139): which two trees are compared
compute_diff(repo, include_uncommitted, selected_commits) ==
    IF ~repo.discoverable THEN Err
    ELSE IF include_uncommitted /\ selected_commits = <<>>
    THEN IF repo.head THEN Ok(repo.head_to_workdir) ELSE Err
    ELSE IF include_uncommitted
    THEN IF repo.base THEN Ok(repo.base_to_workdir) ELSE Err
    ELSE IF selected_commits # <<>>
    THEN IF repo.base /\ repo.head THEN Ok(repo.base_to_head) ELSE Err
    ELSE Ok(<<>>)

\* reload_diffs (186-193)
include_uncommitted(cs) == \E i \in 1..Len(cs) : cs[i].is_uncommitted /\ cs[i].selected
IsSelectedHash(c) == c.selected /\ ~c.is_uncommitted
selected_hashes(cs) ==
    LET picked == SelectSeq(cs, IsSelectedHash)
    IN [i \in 1..Len(picked) |-> picked[i].full_hash]

\* reload_diffs (195-201): compute_diff(..).unwrap_or_default()
computed_diffs(self) ==
    unwrap_or_default(compute_diff(self.repo_path, include_uncommitted(self.commits),
                                   selected_hashes(self.commits)))

\* load_data (160-182): every error is replaced by the empty list
load_data(self) ==
    LET s1 == [self EXCEPT !.commits = unwrap_or_default(list_commits(self.repo_path))]
    IN Ok(reload_diffs(s1, computed_diffs(s1)))

\* App::new (119-157): Err only if load_data returns Err
App_new(repo) ==
    LET loaded == load_data([NewApp EXCEPT !.repo_path = repo])
    IN IF loaded.ok THEN Ok(loaded.v) ELSE Err

EmptyRepo == [NoRepo EXCEPT !.discoverable = TRUE]
NoBaseRepo ==
    [NoRepo EXCEPT !.discoverable = TRUE, !.head = TRUE, !.dirty = TRUE,
                   !.head_to_workdir = <<FileH>>]
CleanRepo ==
    [NoRepo EXCEPT !.discoverable = TRUE, !.head = TRUE, !.base = TRUE, !.ahead = 2,
                   !.base_to_head = <<FileH, FileDX>>,
                   !.base_to_workdir = <<FileH, FileDX>>]
DirtyRepo ==
    [NoRepo EXCEPT !.discoverable = TRUE, !.head = TRUE, !.base = TRUE, !.ahead = 1,
                   !.dirty = TRUE, !.head_to_workdir = <<FileH>>,
                   !.base_to_head = <<FileDX>>,
                   !.base_to_workdir = <<FileH, FileDX>>]
Repos == {NoRepo, EmptyRepo, NoBaseRepo, CleanRepo, DirtyRepo}

\* the process before main runs: args.path is the repository
SessionInit ==
    /\ \E repo \in Repos :
          AppIs([NewApp EXCEPT !.repo_path = repo, !.run_state = "starting"])
    /\ last = Event("init", 0)
    /\ RowsIdle

\* main (main.rs:37-49): App::new(..)?, then app.run() up to the first draw
Main(h) ==
    /\ run_state = "starting"
    /\ LET app == App_new(repo_path)
       IN IF app.ok
          THEN Step([app.v EXCEPT !.height = h], "init", 0)
          ELSE Step([Self EXCEPT !.run_state = "exit_err"], "init", 0)

\* run returns Ok after the loop breaks (293-301) and main returns Ok(())
MainReturn ==
    /\ run_state = "quit"
    /\ Step([Self EXCEPT !.run_state = "exit_ok"], "exit", 0)

\* handle_commit_filter_key: Enter (624-627), on this repository
CommitEnterRepo ==
    /\ view_mode = "CommitFilter"
    /\ CommitEnter(computed_diffs(Self))

\* handle_commit_filter_key: 'j' / Down (628-632)
CommitDown ==
    /\ Running
    /\ view_mode = "CommitFilter"
    /\ Step(IF popup_cursor < SatSub(Len(commits), 1)
            THEN [Self EXCEPT !.popup_cursor = @ + 1] ELSE Self, "popup", 0)

\* handle_commit_filter_key: 'k' / Up (633-635)
CommitUp ==
    /\ Running
    /\ view_mode = "CommitFilter"
    /\ Step([Self EXCEPT !.popup_cursor = SatSub(@, 1)], "popup", 0)

\* handle_commit_filter_key: ' ' (636-640)
CommitSpace ==
    /\ Running
    /\ view_mode = "CommitFilter"
    /\ Step(IF popup_cursor < Len(commits)
            THEN [Self EXCEPT !.commits[popup_cursor + 1].selected = ~@]
            ELSE Self, "popup", 0)

\* handle_commit_filter_key: 'a' (641-645)
CommitAll ==
    /\ Running
    /\ view_mode = "CommitFilter"
    /\ Step([Self EXCEPT !.commits = [i \in 1..Len(@) |-> [@[i] EXCEPT !.selected = TRUE]]],
            "popup", 0)

\* handle_commit_filter_key: 'n' (646-650)
CommitNone ==
    /\ Running
    /\ view_mode = "CommitFilter"
    /\ Step([Self EXCEPT !.commits = [i \in 1..Len(@) |-> [@[i] EXCEPT !.selected = FALSE]]],
            "popup", 0)

SessionNext ==
    \/ \E h \in Heights : Main(h)
    \/ KeyCommits
    \/ CommitEsc
    \/ CommitEnterRepo
    \/ CommitDown
    \/ CommitUp
    \/ CommitSpace
    \/ CommitAll
    \/ CommitNone
    \/ KeyHidden
    \/ KeyQuit
    \/ MainReturn

SpecSession == SessionInit /\ [][SessionNext]_vars

----------------------------------------------------------------------------
(* SpecTree: the sidebar over a tree with nested folders, a sibling folder   *)
(* whose name extends another's ("d2" beside "d") and a file whose name      *)
(* extends a folder's with a byte below the separator ("d.x" beside "d/").   *)

PathDdotX == <<Ch.d, DOT, Ch.x>>                    \* "d.x"
PathDHX == <<Ch.d, SLASH, Ch.h, SLASH, Ch.x>>       \* "d/h/x"
PathD2Y == <<Ch.d, Ch.two, SLASH, Ch.y>>            \* "d2/y"

FileDdotX == FileFromScript(PathDdotX, <<"A">>, "both")
FileDHX == FileFromScript(PathDHX, <<"A", "A", "R">>, "both")
FileD2Y == FileFromScript(PathD2Y, <<"R", "R">>, "both")

\* what git diff lists (in path order) when the explorer starts
TreeDiffSets ==
    {<<FileDdotX, FileDHX, FileDX, FileD2Y>>,
     <<FileDdotX, FileDX>>}

\* a terminal tall enough to show every node of the tree (8 sidebar rows)
TreeHeights == {12}
\* a click on the sidebar's first row, where the tree's first folder stands
TreeClickRows == {2}

\* after App::new, the first draw and a Tab to the sidebar
TreeInit ==
    /\ \E d \in TreeDiffSets, h \in TreeHeights :
           AppIs([reload_diffs(NewApp, d) EXCEPT !.height = h, !.focus = "Sidebar"])
    /\ last = Event("init", 0)
    /\ RowsIdle

TreeNext ==
    \/ \E checks \in Builds : KeyDown(checks)
    \/ \E checks \in Builds : KeyUp(checks)
    \/ KeySpace
    \/ \E row \in TreeClickRows, checks \in Builds : MouseClick(TRUE, row, checks)

SpecTree == TreeInit /\ [][TreeNext]_vars

----------------------------------------------------------------------------
(* SpecScroll: the sidebar cursor over a list longer than the window, in a   *)
(* terminal that is resized between 2 and 4 sidebar rows.                    *)

ScrollHeights == {6, 8}
ScrollDiffs == <<FileDdotX, FileDHX, FileDX, FileD2Y>>

ScrollInit ==
    /\ \E h \in ScrollHeights :
          AppIs([reload_diffs(NewApp, ScrollDiffs) EXCEPT !.height = h, !.focus = "Sidebar"])
    /\ last = Event("init", 0)
    /\ RowsIdle

ScrollNext ==
    \/ \E d \in 0..9 : KeyDigit(d)
    \/ \E checks \in Builds : KeyDown(checks)
    \/ \E checks \in Builds : KeyUp(checks)
    \/ \E checks \in Builds : MouseScrollDown(TRUE, checks)
    \/ \E checks \in Builds : MouseScrollUp(TRUE, checks)
    \/ \E h \in ScrollHeights : Resize(h)

SpecScroll == ScrollInit /\ [][ScrollNext]_vars

----------------------------------------------------------------------------
(* SpecPrefix: the numeric prefix at its real width.  number_prefix is a     *)
(* usize, held here as two words [hi, lo] = hi * 2^16 + lo, and the count is *)
(* cast with `as i32` before 'j' / 'k' use it.  Prefixes stay below 2^32,    *)
(* far from the usize overflow of value * 10 + digit.                        *)

WORD == 2^16
MaxWideHi == 65536
WideDigits == {0, 3}

\* self.number_prefix.unwrap_or(0) * 10 + digit
push_digit(w, digit) ==
    LET t == w.lo * 10 + digit
    IN [hi |-> w.hi * 10 + t \div WORD, lo |-> t % WORD]

WideOne == [hi |-> 0, lo |-> 1]

\* `count as i32`: the low 32 bits as a two's complement number; i32::MIN is
\* kept apart ([min |-> TRUE]), every other value is v
as_i32(w) ==
    LET h == w.hi % WORD
    IN IF h = 32768 /\ w.lo = 0 THEN [min |-> TRUE, v |-> 0]
       ELSE IF h >= 32768 THEN [min |-> FALSE, v |-> (h - WORD) * WORD + w.lo]
       ELSE [min |-> FALSE, v |-> h * WORD + w.lo]

\* scroll_content(delta) (772-780) for delta of type i32: -delta overflows for
\* i32::MIN, which panics in a build with overflow checks and otherwise wraps
\* to i32::MIN, whose `as usize` is 2^64 - 2^31
scroll_content_i32(self, delta, checks) ==
    IF delta.min
    THEN IF checks THEN Panic(self) ELSE [self EXCEPT !.content_scroll = 0]
    ELSE scroll_content(self, delta.v, checks)

\* -(count as i32) (495-497): the negation overflows for i32::MIN
neg_i32(x, checks) ==
    IF x.min THEN [panic |-> checks, x |-> x]
    ELSE [panic |-> FALSE, x |-> [min |-> FALSE, v |-> -x.v]]

wide_count == IF number_prefix.some THEN number_prefix.v ELSE WideOne

PrefixInit ==
    /\ AppIs([reload_diffs(NewApp, ScrollDiffs) EXCEPT !.height = 6])
    /\ last = Event("init", 0)
    /\ RowsIdle

\* a digit (466-472)
WideDigit(d) ==
    /\ InDiff
    /\ LET new == push_digit(IF number_prefix.some THEN number_prefix.v
                             ELSE [hi |-> 0, lo |-> 0], d)
       IN /\ new.hi < MaxWideHi
          /\ Step([Self EXCEPT !.number_prefix = Some(new)], "digit", 0)

\* 'j', Down with content focus (485-491)
WideDown(checks) ==
    /\ InDiff
    /\ focus = "Content"
    /\ Step(scroll_content_i32(Taken, as_i32(wide_count), checks), "scroll", 0)

\* 'k', Up with content focus (492-498)
WideUp(checks) ==
    /\ InDiff
    /\ focus = "Content"
    /\ LET delta == neg_i32(as_i32(wide_count), checks)
       IN IF delta.panic THEN Step(Panic(Taken), "scroll", 0)
          ELSE Step(scroll_content_i32(Taken, delta.x, checks), "scroll", 0)

PrefixNext ==
    \/ \E d \in WideDigits : WideDigit(d)
    \/ \E checks \in BOOLEAN : WideDown(checks)
    \/ \E checks \in BOOLEAN : WideUp(checks)

SpecPrefix == PrefixInit /\ [][PrefixNext]_vars

----------------------------------------------------------------------------
(* SpecPopups: the five view modes and the keys of the popups.  A key is     *)
(* [code, c]: a KeyCode and, for KeyCode::Char, the character.               *)

MaxPopup == 3
MaxFilter == 2

Key(code) == [code |-> code, c |-> 0]
Char(c) == [code |-> "Char", c |-> c]
Typed == {97, 66, 113}                         \* 'a', 'B', 'q'
PopupKeys ==
    {Key("Esc"), Key("Enter"), Key("Down"), Key("Up"), Key("Backspace"), Key("Tab")}
       \cup {Char(c) : c \in Typed \cup {63, 106, 107}}      \* and '?', 'j', 'k'

\* str::to_lowercase on ASCII
to_lowercase(s) == [i \in 1..Len(s) |-> IF s[i] \in 65..90 THEN s[i] + 32 ELSE s[i]]

\* str::contains
contains(s, t) == \E i \in 0..(Len(s) - Len(t)) : SubSeq(s, i + 1, i + Len(t)) = t

\* the filter closure of handle_worktree_switcher_key (668-672)
wt_matches(self, wt) ==
    \/ self.filter_input = <<>>
    \/ contains(to_lowercase(wt.path), to_lowercase(self.filter_input))
    \/ wt.branch.some /\ contains(to_lowercase(wt.branch.v), to_lowercase(self.filter_input))

\* filtered (665-674): the 0-based indices of the worktrees that match
filtered(self) ==
    SelectSeq([i \in 1..Len(self.worktrees) |-> i - 1],
              LAMBDA idx : wt_matches(self, self.worktrees[idx + 1]))

\* repo_path = wt.path; current_worktree = idx; let _ = self.load_data():
\* load_data lists the same worktrees and finds idx again (164-172)
switch_worktree(self, idx) ==
    [load_data([self EXCEPT !.repo_path = self.worktrees[idx + 1].repo]).v
        EXCEPT !.current_worktree = idx]

\* handle_worktree_switcher_key (657-701); quit is the value returned
handle_worktree_switcher_key(self, key) ==
    LET shown == filtered(self)
        app ==
          CASE key.code = "Esc" ->
                 [self EXCEPT !.view_mode = "Diff", !.filter_input = <<>>]
            [] key.code = "Enter" ->
                 [(IF self.popup_cursor < Len(shown)
                   THEN switch_worktree(self, shown[self.popup_cursor + 1])
                   ELSE self)
                  EXCEPT !.view_mode = "Diff", !.filter_input = <<>>]
            [] key = Char(106) \/ key.code = "Down" ->
                 [self EXCEPT !.popup_cursor = @ + 1]
            [] key = Char(107) \/ key.code = "Up" ->
                 [self EXCEPT !.popup_cursor = SatSub(@, 1)]
            [] key.code = "Char" /\ key.c \notin {106, 107} ->
                 [self EXCEPT !.filter_input = Append(@, key.c), !.popup_cursor = 0]
            [] key.code = "Backspace" ->
                 [self EXCEPT !.filter_input = IF @ = <<>> THEN @ ELSE SubSeq(@, 1, Len(@) - 1),
                              !.popup_cursor = 0]
            [] OTHER -> self
    IN [app |-> app, quit |-> FALSE]

\* handle_worktree_list_key (704-728)
handle_worktree_list_key(self, key) ==
    LET app ==
          CASE key.code = "Esc" \/ key = Char(113) -> [self EXCEPT !.view_mode = "Diff"]
            [] key.code = "Enter" ->
                 [(IF self.popup_cursor < Len(self.worktrees)
                   THEN switch_worktree(self, self.popup_cursor)
                   ELSE self)
                  EXCEPT !.view_mode = "Diff"]
            [] key = Char(106) \/ key.code = "Down" ->
                 IF self.popup_cursor < SatSub(Len(self.worktrees), 1)
                 THEN [self EXCEPT !.popup_cursor = @ + 1] ELSE self
            [] key = Char(107) \/ key.code = "Up" ->
                 [self EXCEPT !.popup_cursor = SatSub(@, 1)]
            [] OTHER -> self
    IN [app |-> app, quit |-> FALSE]

\* a variant that quits on 'q'
handle_help_key_quits(self, key) ==
    IF key.code = "Esc" \/ key = Char(63)
    THEN [app |-> [self EXCEPT !.view_mode = "Diff"], quit |-> FALSE]
    ELSE [app |-> self, quit |-> key = Char(113)]

\* handle_help_key (731-739)
handle_help_key(self, key) ==
    IF key.code = "Esc" \/ key = Char(113) \/ key = Char(63)
    THEN [app |-> [self EXCEPT !.view_mode = "Diff"], quit |-> FALSE]
    ELSE [app |-> self, quit |-> FALSE]

\* run (277-281): break when handle_key returns true
Handled(r) ==
    Step(IF r.quit THEN [r.app EXCEPT !.run_state = "quit"] ELSE r.app, "popup", 0)

\* 'w' (599-603)
KeyWorktrees ==
    /\ InDiff
    /\ Step([Taken EXCEPT !.view_mode = "WorktreeSwitcher", !.popup_cursor = 0,
                          !.filter_input = <<>>], "w", 0)

\* 'W' (604-607)
KeyWorktreeList ==
    /\ InDiff
    /\ Step([Taken EXCEPT !.view_mode = "WorktreeList",
                          !.popup_cursor = current_worktree], "W", 0)

\* '?' (608-610)
KeyHelp ==
    /\ InDiff
    /\ Step([Taken EXCEPT !.view_mode = "Help"], "?", 0)

\* handle_key (456-457) in the worktree switcher
SwitcherKey(key) ==
    /\ Running
    /\ view_mode = "WorktreeSwitcher"
    /\ (key = Char(106) \/ key.code = "Down") => popup_cursor < MaxPopup
    /\ (key.code = "Char" /\ key.c \notin {106, 107}) => Len(filter_input) < MaxFilter
    /\ Handled(handle_worktree_switcher_key(Self, key))

\* handle_key (458) in the worktree list
ListKey(key) ==
    /\ Running
    /\ view_mode = "WorktreeList"
    /\ Handled(handle_worktree_list_key(Self, key))

\* handle_key (459) in the help overlay
HelpKey(key) ==
    /\ Running
    /\ view_mode = "Help"
    /\ Handled(handle_help_key(Self, key))

\* handle_commit_filter_key: any key without an arm (650-652)
CommitOther ==
    /\ Running
    /\ view_mode = "CommitFilter"
    /\ Step(Self, "popup", 0)

WtA == [path |-> <<SLASH, Ch.a>>, branch |-> Some(<<Ch.x>>), repo |-> CleanRepo]
WtB == [path |-> <<SLASH, 66>>, branch |-> None, repo |-> DirtyRepo]
WtC == [path |-> <<SLASH, Ch.a, Ch.b>>, branch |-> Some(<<66>>), repo |-> NoBaseRepo]
WorktreeLists == {<<WtA, WtB, WtC>>, <<WtB>>, <<>>}

\* App::new on the first worktree and the first draw
PopupInit ==
    /\ \E wts \in WorktreeLists :
          AppIs([load_data([NewApp EXCEPT
                               !.repo_path = IF wts = <<>> THEN EmptyRepo ELSE wts[1].repo,
                               !.worktrees = wts]).v
                 EXCEPT !.height = 6])
    /\ last = Event("init", 0)
    /\ RowsIdle

PopupNext ==
    \/ KeyQuit
    \/ KeyTab
    \/ KeyCommits
    \/ KeyWorktrees
    \/ KeyWorktreeList
    \/ KeyHelp
    \/ CommitEsc
    \/ CommitEnterRepo
    \/ CommitDown
    \/ CommitUp
    \/ CommitOther
    \/ \E key \in PopupKeys : SwitcherKey(key)
    \/ \E key \in PopupKeys : ListKey(key)
    \/ \E key \in PopupKeys : HelpKey(key)

SpecPopups == PopupInit /\ [][PopupNext]_vars

----------------------------------------------------------------------------
(* SpecParse: parse_diff (diff.rs:196-317) over the callbacks of diff.print. *)
(* A callback is [path, hunk, origin, content]: the delta's new path, the    *)
(* hunk (None on a file-header or binary line), the line's origin and text.  *)
(* As libgit2 emits them, a '+', '-' or ' ' line comes with its hunk.        *)

MaxCallbacks == 4

LF == <<10>>
Whitespace == {9, 10, 13, 32}

RECURSIVE trim_start(_)
trim_start(str) ==
    IF str # <<>> /\ Head(str) \in Whitespace THEN trim_start(Tail(str)) ELSE str

RECURSIVE trim_end_matches(_, _)
\* str::trim_end_matches(chars)
trim_end_matches(str, chars) ==
    IF str # <<>> /\ str[Len(str)] \in chars
    THEN trim_end_matches(SubSeq(str, 1, Len(str) - 1), chars) ELSE str

\* str::trim
trim(str) == trim_end_matches(trim_start(str), Whitespace)

\* the hunks git2 passes: header(), old_start(), old_lines(), new_start(), new_lines()
HunkOne ==
    [header |-> <<64, 49>> \o LF, old_start |-> 1, old_lines |-> 2,
     new_start |-> 1, new_lines |-> 2]
HunkTwo ==
    [header |-> <<64, 50>> \o LF, old_start |-> 9, old_lines |-> 0,
     new_start |-> 9, new_lines |-> 1]

Callback(path, hunk, origin) ==
    [path |-> path, old_path |-> Some(path), is_binary |-> FALSE, hunk |-> hunk,
     origin |-> origin, content |-> <<Ch.a>> \o LF]

\* the 'B' line of a binary delta that renames "y" to "d"
BinaryCallback ==
    [Callback(<<Ch.d>>, None, "B") EXCEPT !.old_path = Some(<<Ch.y>>), !.is_binary = TRUE]

\* origins: 'F' file header, 'H' hunk header, 'B' binary, '+', '-', ' '
Callbacks ==
    {Callback(<<Ch.x>>, None, "F"), Callback(<<Ch.x>>, Some(HunkOne), "H"),
     Callback(<<Ch.x>>, Some(HunkOne), "+"), Callback(<<Ch.x>>, Some(HunkOne), "-"),
     Callback(<<Ch.x>>, Some(HunkOne), " "), Callback(<<Ch.x>>, Some(HunkTwo), "+"),
     Callback(<<Ch.y>>, None, "F"), Callback(<<Ch.y>>, Some(HunkOne), "+"),
     BinaryCallback}

\* f.hunks.push(h) if there is a file
push_hunk(file, hunk) ==
    IF file.some /\ hunk.some
    THEN Some([file.v EXCEPT !.hunks = Append(@, hunk.v)]) ELSE file

\* 203-240: a delta whose path is not the current file's starts a new file
start_file(p, cb) ==
    IF ~p.current_file.some \/ p.current_file.v.path # cb.path
    THEN LET f == push_hunk(p.current_file, p.current_hunk)
         IN [p EXCEPT
               !.files = IF f.some THEN Append(@, f.v) ELSE @,
               !.current_hunk = None,
               !.last_hunk_header = None,
               !.current_file =
                  Some([path |-> cb.path,
                        old_path |-> IF cb.old_path = Some(cb.path) THEN None
                                     ELSE cb.old_path,
                        old_content |-> None,
                        new_content |-> None, added |-> 0, removed |-> 0,
                        hunks |-> <<>>, collapsed |-> FALSE,
                        is_binary |-> cb.is_binary])]
    ELSE p

\* 242-269: a hunk whose trimmed header is not the last one starts a new hunk
start_hunk(p, cb) ==
    IF cb.hunk.some /\ p.last_hunk_header # Some(trim(cb.hunk.v.header))
    THEN [p EXCEPT
            !.current_file = push_hunk(@, p.current_hunk),
            !.current_hunk =
               Some([old_start |-> cb.hunk.v.old_start, old_count |-> cb.hunk.v.old_lines,
                     new_start |-> cb.hunk.v.new_start, new_count |-> cb.hunk.v.new_lines,
                     header |-> trim(cb.hunk.v.header), lines |-> <<>>]),
            !.last_hunk_header = Some(trim(cb.hunk.v.header))]
    ELSE p

\* 273-278
LineTypeOf(origin) ==
    CASE origin = "+" -> "Added" [] origin = "-" -> "Removed" [] OTHER -> "Context"

\* a variant that counts every line as added
update_stats_every(file, line_type) ==
    IF ~file.some THEN file ELSE Some([file.v EXCEPT !.added = @ + 1])

\* 292-301
update_stats(file, line_type) ==
    IF ~file.some THEN file
    ELSE CASE line_type = "Added" -> Some([file.v EXCEPT !.added = @ + 1])
           [] line_type = "Removed" -> Some([file.v EXCEPT !.removed = @ + 1])
           [] OTHER -> file

\* 271-301: the line is pushed on the current hunk and counted
push_line(p, cb) ==
    IF cb.origin \notin {"+", "-", " "} THEN p
    ELSE LET line_type == LineTypeOf(cb.origin)
             diff_line == DiffLine(line_type, trim_end_matches(cb.content, {10, 13}),
                                   IF line_type = "Added" THEN None ELSE Some(1),
                                   IF line_type = "Removed" THEN None ELSE Some(1))
         IN [p EXCEPT
               !.current_hunk = IF @.some THEN Some([@.v EXCEPT !.lines = Append(@, diff_line)])
                                ELSE @,
               !.current_file = update_stats(@, line_type)]

\* the closure passed to diff.print (202-304)
on_callback(p, cb) == push_line(start_hunk(start_file(p, cb), cb), cb)

ParseInit ==
    /\ AppIs(NewApp)
    /\ last = Event("init", 0)
    /\ RowsIdle

\* parse_diff is entered (196-200)
ParseEnter ==
    /\ parse.pc = "idle"
    /\ parse' = [pc |-> "print", files |-> <<>>, current_file |-> None,
                 current_hunk |-> None, last_hunk_header |-> None, fed |-> 0]
    /\ UNCHANGED <<appVars, rowVars, display_names>>

\* diff.print calls the closure
ParseCallback(cb) ==
    /\ parse.pc = "print"
    /\ parse.fed < MaxCallbacks
    /\ parse' = [on_callback(parse, cb) EXCEPT !.fed = @ + 1]
    /\ UNCHANGED <<appVars, rowVars, display_names>>

\* diff.print returns: the final hunk and file are saved (306-316)
ParseReturn ==
    /\ parse.pc = "print"
    /\ LET f == push_hunk(parse.current_file, parse.current_hunk)
       IN parse' = [parse EXCEPT !.pc = "done",
                                 !.files = IF f.some THEN Append(@, f.v) ELSE @,
                                 !.current_file = None, !.current_hunk = None]
    /\ UNCHANGED <<appVars, rowVars, display_names>>

ParseNext ==
    \/ ParseEnter
    \/ \E cb \in Callbacks : ParseCallback(cb)
    \/ ParseReturn

SpecParse == ParseInit /\ [][ParseNext]_vars

----------------------------------------------------------------------------
(* SpecHidden: the hidden-file filter over diffs that hold a dotfile, a file  *)
(* in a dotfolder, lock files in the root and in a folder, and a file with a *)
(* dot inside its name.                                                      *)

GO_SUM == <<103, 111, 46, 115, 117, 109>>                   \* "go.sum"
PathDotDX == <<DOT, Ch.d, SLASH, Ch.x>>                     \* ".d/x"
PathDGoSum == <<Ch.d, SLASH>> \o GO_SUM                     \* "d/go.sum"

HiddenDiffSets ==
    {<<BinaryFile(PathDotDX), FileH, FileDdotX, BinaryFile(PathDGoSum), FileDX,
       BinaryFile(GO_SUM)>>,
     <<BinaryFile(PathDGoSum), FileDX>>,
     <<FileH>>,
     <<>>}

HiddenInit ==
    /\ \E d \in HiddenDiffSets, h \in Heights \ {1} :
          AppIs([reload_diffs(NewApp, d) EXCEPT !.height = h])
    /\ last = Event("init", 0)
    /\ RowsIdle

HiddenNext ==
    \/ KeyHidden
    \/ \E d \in HiddenDiffSets : KeyContext(d)
    \/ KeyCollapseAll
    \/ KeyNextFile
    \/ KeySpace

SpecHidden == HiddenInit /\ [][HiddenNext]_vars

----------------------------------------------------------------------------
(* SpecNames: get_display_names on the diffs of a subset of a pool of paths  *)
(* that share basenames, nest ("x", "d/x", "a/d/x") and end alike without    *)
(* sharing a component ("a/hd/x" ends with "d/x").                           *)

PathX == <<Ch.x>>
PathADX == <<Ch.a, SLASH, Ch.d, SLASH, Ch.x>>
PathBDX == <<Ch.b, SLASH, Ch.d, SLASH, Ch.x>>
PathAHDX == <<Ch.a, SLASH, Ch.h, Ch.d, SLASH, Ch.x>>
PathDY == <<Ch.d, SLASH, Ch.y>>
PathAY == <<Ch.a, SLASH, Ch.y>>
\* in the order of git's diff: sorted by path
PathPool == <<PathADX, PathAHDX, PathAY, PathBDX, PathDX, PathDY, PathX>>

DiffsOf(picked) ==
    LET Test(p) == p \in picked
        paths == SelectSeq(PathPool, Test)
    IN [i \in 1..Len(paths) |-> BinaryFile(paths[i])]

NamesInit ==
    /\ \E picked \in SUBSET {PathPool[i] : i \in 1..Len(PathPool)} :
          AppIs(reload_diffs(NewApp, DiffsOf(picked)))
    /\ last = Event("init", 0)
    /\ RowsIdle

NamesCall ==
    /\ display_names = None
    /\ display_names' = Some(get_display_names(diffs))
    /\ UNCHANGED <<appVars, rowVars, parse>>

NamesNext == NamesCall

SpecNames == NamesInit /\ [][NamesNext]_vars

----------------------------------------------------------------------------
(* Properties of the row functions (SpecRows) *)

Counted == r_pc \in {"split", "header", "fill", "lines", "trail", "done"}
SplitRendered == r_pc \in {"header", "fill", "lines", "trail", "done"}
Open(diff) == ~diff.collapsed /\ ~diff.is_binary
HunkRows(diff) == IF Open(diff) THEN Len(diff.hunks) ELSE 0
Shown(row) == [kind |-> row.kind, left |-> row.left, right |-> row.right]
NoOf(lines, t) == Cardinality({i \in 1..Len(lines) : lines[i].line_type = t})
\* lines is a run of Removed lines followed by a run of Added lines
RemovedThenAdded(lines) ==
    /\ NoOf(lines, "Removed") >= 1
    /\ NoOf(lines, "Added") >= 1
    /\ \A i \in 1..Len(lines) :
          lines[i].line_type = (IF i <= NoOf(lines, "Removed") THEN "Removed" ELSE "Added")

\* C1: in side-by-side hunk-only mode a hunk that is a run of r Removed lines
\* followed by a run of a Added lines draws max(r, a) rows after its header:
\* row i carries the i-th removed line on the left and the i-th added line on
\* the right, the shorter side blank on the remaining rows
C1_RunsPairedRowByRow ==
    (/\ SplitRendered
     /\ Open(r_diff)
     /\ Len(r_diff.hunks) = 1
     /\ RemovedThenAdded(r_diff.hunks[1].lines))
    => LET lines == r_diff.hunks[1].lines
           r == NoOf(lines, "Removed")
           a == NoOf(lines, "Added")
       IN /\ Len(r_split) = 1 + Max(r, a)
          /\ \A i \in 1..Max(r, a) :
                /\ r_split[i + 1].left =
                      (IF i <= r THEN SideCell(Some(IndexedLine(lines[i], i - 1)), TRUE)
                       ELSE None)
                /\ r_split[i + 1].right =
                      (IF i <= a THEN SideCell(Some(IndexedLine(lines[r + i], r + i - 1)), FALSE)
                       ELSE None)

C9_CountIsRowsWalked ==
    (r_pc = "done" /\ Open(r_diff) /\ has_full_content(r_diff))
    => /\ Len(r_full) = full_line_count(r_diff)
       /\ \A i \in 1..Len(r_full) :
             r_full[i].kind \in {"fill", "trail"}
             => r_full[i].adv_old /\ r_full[i].adv_new

\* C10 as stated: without content, full-file mode walks the rows of
\* side-by-side hunk-only mode, hunk-header rows included, and counts as many
C10_SameRowsAsHunkOnly ==
    (r_pc = "done" /\ ~has_full_content(r_diff))
    => /\ [i \in 1..Len(r_full) |-> Shown(r_full[i])] = r_split
       /\ r_count["SideBySideFull"] = r_count["SideBySide"]

\* C10 as amended: without content, full-file mode walks the line rows of
\* side-by-side hunk-only mode in order and no hunk-header row, and its count
\* is the hunk-only count less one per hunk header
C10_LineRowsOfHunkOnly ==
    (r_pc = "done" /\ ~has_full_content(r_diff))
    => /\ [i \in 1..Len(r_full) |-> Shown(r_full[i])]
              = SelectSeq(r_split, LAMBDA row : row.kind = "line")
       /\ r_count["SideBySideFull"] = r_count["SideBySide"] - HunkRows(r_diff)
       /\ r_count["SideBySideFull"] = 1 + Len(r_full)

\* a file without content whose two hunks were walked in both modes
C10_Witness ==
    /\ r_pc = "done"
    /\ ~has_full_content(r_diff)
    /\ Open(r_diff)
    /\ Len(r_diff.hunks) >= 2
    /\ Len(r_full) >= 3
    /\ Len(r_split) = Len(r_full) + 2

\* C11: file_line_count gives every FileDiff the same number of rows in
\* Unified mode as in SideBySide mode, and so calculate_total_lines gives a
\* list of files the same total in the two modes.
C11_UnifiedCountsAsSideBySide ==
    Counted =>
        /\ r_count["Unified"] = r_count["SideBySide"]
        /\ calculate_total_lines(<<r_diff, FileDX>>, "Unified")
             = calculate_total_lines(<<r_diff, FileDX>>, "SideBySide")

\* an open file whose hunk has a removed and an added line has been counted
C11_Witness ==
    /\ Counted
    /\ Open(r_diff)
    /\ Len(r_diff.hunks) = 1
    /\ NoOf(r_diff.hunks[1].lines, "Removed") >= 1
    /\ NoOf(r_diff.hunks[1].lines, "Added") >= 1
    /\ r_count["Unified"] = 2 + Len(r_diff.hunks[1].lines)
    /\ r_count["SideBySide"] = r_count["Unified"]

\* C12: a collapsed or binary file counts exactly one row in every mode; an
\* open file counts, in Unified and in SideBySide mode, one row for the file
\* header plus, for each hunk, one row for the hunk header and one row per
\* line of the hunk.  The App's own file_line_count gives the same number.
C12_HeaderPlusHunksPlusLines ==
    Counted =>
        /\ ~Open(r_diff) => \A m \in Modes : r_count[m] = 1
        /\ Open(r_diff) =>
              \A m \in {"Unified", "SideBySide"} :
                 r_count[m] = 1 + SumSeq([h \in 1..Len(r_diff.hunks) |->
                                             1 + Len(r_diff.hunks[h].lines)])
        /\ \A m \in {"Unified", "SideBySide"} :
              r_count[m] = App_file_line_count(r_diff)

\* a file with one hunk of MaxScript lines has been counted: MaxScript + 1 + 1
C12_Witness ==
    /\ Counted
    /\ Open(r_diff)
    /\ Len(r_diff.hunks) = 1
    /\ Len(r_diff.hunks[1].lines) = MaxScript
    /\ r_count["Unified"] = MaxScript + 1 + 1
    /\ r_count["SideBySide"] = MaxScript + 1 + 1

----------------------------------------------------------------------------
(* Properties of the event loop (Spec) *)

Nodes == flatten_tree(file_tree)
\* where diff index i stands among the visible files (1-based), 0 if hidden
VisiblePos(self, i) ==
    LET at == {k \in 1..Len(self.visible_diffs) : self.visible_diffs[k] = i}
    IN IF at = {} THEN 0 ELSE CHOOSE k \in at : \A j \in at : k <= j
\* the rows of the visible files before diff index i
scroll_offset_of(self, i) ==
    LET before == SelectIdx(self.visible_diffs, LAMBDA v : v < i)
    IN SumSeq([k \in 1..Len(before) |->
                  App_file_line_count(self.diffs[self.visible_diffs[before[k]] + 1])])
Selected == Running /\ last.ev = "select"

\* C2: after every event, content_scroll <= total rows of the visible files
\* saturating-minus the visible content height
C2_ScrollWithinRows ==
    Running
    => content_scroll <=
          SatSub(calculate_total_lines(Visible(Self), diff_mode), SatSub(height, 2))

\* C3 as stated: after a jump to visible file k, the file that owns
\* content_scroll is file k
C3_JumpThenCurrentFile ==
    (Selected /\ VisiblePos(Self, last.arg) > 0)
    => get_current_file(Self) = Some(diffs[last.arg + 1].path)

\* C3 as amended: the file that owns the start offset of visible file k is
\* file k, for every k; and after a jump to visible file k the file that owns
\* content_scroll is file k exactly when k's start offset is at most max_scroll
C3_RoundTripUnlessClamped ==
    /\ \A k \in 1..Len(visible_diffs) :
          get_current_file([Self EXCEPT !.content_scroll = Starts(Self)[k-1]])
             = Some(Visible(Self)[k].path)
    /\ (Selected /\ VisiblePos(Self, last.arg) > 0)
       => ((get_current_file(Self) = Some(diffs[last.arg + 1].path))
           <=> (Starts(Self)[VisiblePos(Self, last.arg) - 1] <= max_scroll(Self)))

\* a jump to the second visible file that was not clamped
C3_Witness ==
    /\ Selected
    /\ VisiblePos(Self, last.arg) = 2
    /\ Starts(Self)[1] <= max_scroll(Self)
    /\ content_scroll = Starts(Self)[1]
    /\ content_scroll > 0

\* C4: after every sidebar-affecting event, with a non-empty tree and a
\* visible sidebar height > 0, the cursor is inside the sidebar window
C4_CursorInsideWindow ==
    (/\ Running
     /\ last.ev \in Tracked
     /\ Nodes # <<>>
     /\ sidebar_visible_height(Self) > 0)
    => /\ sidebar_scroll <= file_cursor
       /\ file_cursor <= sidebar_scroll + sidebar_visible_height(Self) - 1

\* C5: after every event, file_cursor < flatten_tree(file_tree).len(), or
\* file_cursor = 0 when the flattened tree is empty
C5_CursorInsideTree ==
    IF Nodes = <<>> THEN file_cursor = 0 ELSE file_cursor < Len(Nodes)

\* a folder was collapsed under the cursor, and the cursor is on the last row
\* of the tree that is left
C5_Witness ==
    /\ Running
    /\ last.ev = "sb_toggle"
    /\ \E p \in DOMAIN expanded_folders : ~expanded_folders[p]
    /\ Len(Nodes) >= 2
    /\ file_cursor = Len(Nodes) - 1

\* C6: after a reload, if the path under the cursor before the reload is in
\* the rebuilt flattened tree, the cursor points at that path
C6_CursorFollowsPath ==
    [][(/\ last'.ev = "reload"
        /\ run_state' = "running"
        /\ CursorNode(Self).some
        /\ \E i \in 1..Len(Nodes') : Nodes'[i].path = CursorNode(Self).v.path)
       => /\ CursorNode(Self').some
          /\ CursorNode(Self').v.path = CursorNode(Self).v.path]_vars

\* C7 as stated: selecting a file node sets content_scroll to the rows of the
\* visible files before that file, clamped to the maximum scroll
C7_SelectSetsOffset ==
    Selected
    => content_scroll = Min(scroll_offset_of(Self, last.arg), max_scroll(Self))

\* C7 as amended: selecting the node of a visible file sets content_scroll to
\* the rows of the visible files before it, clamped to max_scroll, unless
\* max_scroll panics (height < 2); selecting the node of a file that is not
\* among the visible files leaves content_scroll as it was
C7_SelectVisibleSetsOffset ==
    [][(last'.ev = "select")
       => IF VisiblePos(Self', last'.arg) > 0
          THEN \/ /\ run_state' = "running"
                  /\ content_scroll' =
                        Min(scroll_offset_of(Self', last'.arg), max_scroll(Self'))
               \/ /\ run_state' = "panicked"
                  /\ height' < 2
                  /\ content_scroll' = content_scroll
          ELSE /\ run_state' = "running"
               /\ content_scroll' = content_scroll]_vars

\* the node of the second visible file was selected and the offset clamped
C7_Witness ==
    /\ Selected
    /\ VisiblePos(Self, last.arg) = 2
    /\ scroll_offset_of(Self, last.arg) > max_scroll(Self)
    /\ content_scroll = max_scroll(Self)
    /\ height >= 2


\* the rows at which the visible files start
FileStartOffsets ==
    {SumSeq([j \in 1..(k-1) |-> App_file_line_count(Visible(Self)[j])]) :
        k \in 1..Len(Visible(Self))}
StartsAbove == {o \in FileStartOffsets : o > content_scroll}
StartsBelow == {o \in FileStartOffsets : o < content_scroll}

\* C13: one 'n' sets content_scroll to the smallest file start offset strictly
\* greater than the current value and leaves it unchanged when there is none;
\* one 'N' sets it to the largest file start offset strictly less than the
\* current value, or to 0 when there is none.
C13_NextPrevFileBoundary ==
    [][/\ (KeyNextFile /\ count = 1) =>
            content_scroll' = IF StartsAbove = {} THEN content_scroll
                              ELSE CHOOSE o \in StartsAbove :
                                      \A q \in StartsAbove : o <= q
       /\ (KeyPrevFile /\ count = 1) =>
            content_scroll' = IF StartsBelow = {} THEN 0
                              ELSE CHOOSE o \in StartsBelow :
                                      \A q \in StartsBelow : o >= q]_vars

\* two files are visible and the view stands on the start of the second one,
\* where 'n' has no boundary above and 'N' has the first file's start below
C13_Witness ==
    /\ Running
    /\ last.ev = "other"
    /\ Len(Visible(Self)) = 2
    /\ content_scroll > 0
    /\ content_scroll \in FileStartOffsets
    /\ StartsAbove = {}
    /\ StartsBelow = {0}
    /\ next_file(Self).content_scroll = content_scroll
    /\ prev_file(Self).content_scroll = 0


----------------------------------------------------------------------------
(* Properties of the file tree (SpecTree) *)

\* path lies under the folder at fp, at any depth
IsUnder(path, fp) ==
    /\ Len(Split(path)) > Len(Split(fp))
    /\ SubSeq(Split(path), 1, Len(Split(fp))) = Split(fp)

\* C14: in the list build_file_tree returns every folder node is immediately
\* followed by all of its descendants, as one contiguous block: no node that
\* is not under the folder stands between the folder and one of its descendants.
C14_DescendantsContiguous ==
    \A i \in 1..Len(file_tree) :
       file_tree[i].is_folder =>
          \A j \in (i+1)..Len(file_tree) :
             IsUnder(file_tree[j].path, file_tree[i].path) =>
                \A k \in (i+1)..j : IsUnder(file_tree[k].path, file_tree[i].path)


\* node n of the tree has a collapsed folder among its proper ancestors
UnderCollapsed(n) ==
    \E i \in 1..Len(file_tree) :
       /\ file_tree[i].is_folder
       /\ ~file_tree[i].expanded
       /\ IsUnder(n.path, file_tree[i].path)
\* the folders shown expanded in the flattened list
OpenFolders == {Nodes[i].path : i \in {j \in 1..Len(Nodes) :
                                          Nodes[j].is_folder /\ Nodes[j].expanded}}

\* C15: flatten_tree emits a node exactly when none of its proper ancestor
\* folders is collapsed, in tree order; and collapsing a shown folder F removes
\* from the flattened list exactly the nodes under F: F itself stays, and so
\* does every node whose path merely begins with F's name.
C15_EmittedIffNoCollapsedAncestor ==
    /\ Nodes = SelectSeq(file_tree, LAMBDA n : ~UnderCollapsed(n))
    /\ \A fp \in OpenFolders :
          flatten_tree(build_file_tree(diffs, EntrySet(expanded_folders, fp, FALSE)))
           = SelectSeq([i \in 1..Len(Nodes) |->
                           IF Nodes[i].path = fp
                           THEN [Nodes[i] EXCEPT !.expanded = FALSE] ELSE Nodes[i]],
                       LAMBDA n : ~IsUnder(n.path, fp))

\* folder d has been collapsed while d.x and d2 are in the tree: d, d.x, d2
\* and d2/y are listed, and nothing under d is
C15_Witness ==
    /\ last.ev = "sb_toggle"
    /\ Len(file_tree) = 7
    /\ ~EntryGet(expanded_folders, <<Ch.d>>)
    /\ [i \in 1..Len(Nodes) |-> Nodes[i].path]
         = <<(<<Ch.d>>), PathDdotX, (<<Ch.d, Ch.two>>), PathD2Y>>


\* C17: flatten_tree is idempotent: flattening the list it returned gives
\* that list again.
C17_FlattenIdempotent ==
    flatten_tree(flatten_tree(file_tree)) = flatten_tree(file_tree)

\* folder d and the folder d/h inside it are both collapsed: the first pass
\* has dropped nodes, and a second pass over its result drops nothing
C17_Witness ==
    /\ last.ev = "sb_toggle"
    /\ ~EntryGet(expanded_folders, <<Ch.d>>)
    /\ ~EntryGet(expanded_folders, <<Ch.d, SLASH, Ch.h>>)
    /\ Len(flatten_tree(file_tree)) < Len(file_tree)
    /\ Len(flatten_tree(flatten_tree(file_tree))) = Len(flatten_tree(file_tree))


\* the expanded flag the tree gives the folder at fp
FolderFlag(tree, fp) ==
    {tree[i].expanded : i \in {j \in 1..Len(tree) :
                                  tree[j].is_folder /\ tree[j].path = fp}}
\* the folders whose flag a step changes
Toggled ==
    {fp \in {file_tree[i].path : i \in 1..Len(file_tree)} :
        FolderFlag(file_tree, fp) # FolderFlag(file_tree', fp)}
\* self's cursor stands on the node at path
CursorOn(self, path) ==
    /\ CursorNode(self).some
    /\ CursorNode(self).v.path = path
\* the mouse row of self's cursor
CursorRow(self) == 2 + self.file_cursor - self.sidebar_scroll

\* the sidebar shows the node at path on mouse row `row`
ShowsAt(self, row, path) ==
    /\ ClickedNode(self, row).some
    /\ ClickedNode(self, row).v.path = path

\* C16: a folder toggle (space with sidebar focus, or a click on the folder)
\* flips that one folder and leaves the cursor on its path; toggling the same
\* folder once more, by space or by a click on it, restores exactly the
\* flattened list shown before the first toggle, the cursor again on its path.
C16_ToggleTwiceRestoresList ==
    [][last'.ev = "sb_toggle" =>
          /\ Cardinality(Toggled) = 1
          /\ \A fp \in Toggled :
                /\ CursorOn(Self', fp)
                /\ \A after \in {Self'} :
                   \A again \in {toggle_sidebar_node(after)}
                                 \cup {handle_sidebar_click(after, row, FALSE) :
                                          row \in {r \in {CursorRow(after)} :
                                                      ShowsAt(after, r, fp)}} :
                      /\ flatten_tree(again.file_tree) = Nodes
                      /\ CursorOn(again, fp)]_vars

\* folder d, never toggled before, has just been collapsed with d/h collapsed
\* inside it: the list is shorter than the tree and the cursor is on d
C16_Witness ==
    /\ last.ev = "sb_toggle"
    /\ Len(file_tree) = 7
    /\ ~EntryGet(expanded_folders, <<Ch.d>>)
    /\ ~EntryGet(expanded_folders, <<Ch.d, SLASH, Ch.h>>)
    /\ CursorOn(Self, <<Ch.d>>)
    /\ Len(Nodes) = 4
    /\ ShowsAt(Self, CursorRow(Self), <<Ch.d>>)
    /\ Len(flatten_tree(toggle_sidebar_node(Self).file_tree)) = 6
    /\ Len(flatten_tree(handle_sidebar_click(Self, CursorRow(Self), FALSE).file_tree)) = 6


\* the files of the diff list under the folder at fp, at any depth
FilesUnder(fp) == {k \in 1..Len(diffs) : IsUnder(diffs[k].path, fp)}
RECURSIVE SumOver(_, _)
SumOver(ks, field) ==
    IF ks = {} THEN 0
    ELSE LET k == CHOOSE j \in ks : TRUE
         IN diffs[k][field] + SumOver(ks \ {k}, field)

\* C20: every folder node's added and removed counts are the sums of the
\* counts of exactly the files under that folder, at any depth; every file
\* node carries the added and removed counts of its own diff.
C20_FolderCountsAreSums ==
    \A i \in 1..Len(file_tree) :
       LET node == file_tree[i] IN
       IF node.is_folder
       THEN /\ node.added = SumOver(FilesUnder(node.path), "added")
            /\ node.removed = SumOver(FilesUnder(node.path), "removed")
       ELSE /\ node.diff_index.some
            /\ node.diff_index.v < Len(diffs)
            /\ diffs[node.diff_index.v + 1].path = node.path
            /\ node.added = diffs[node.diff_index.v + 1].added
            /\ node.removed = diffs[node.diff_index.v + 1].removed

\* the tree rebuilt by a toggle: folder d holds d/h/x (+2 -1) and d/x (+1 -0)
\* and counts +3 -1, beside d.x and d2/y, which it does not count
C20_Witness ==
    /\ last.ev = "sb_toggle"
    /\ Len(file_tree) = 7
    /\ file_tree[1].path = <<Ch.d>>
    /\ file_tree[1].is_folder
    /\ FilesUnder(<<Ch.d>>) = {2, 3}
    /\ file_tree[1].added = 3
    /\ file_tree[1].removed = 1
    /\ file_tree[3].path = <<Ch.d, SLASH, Ch.h>>
    /\ file_tree[3].added = 2


----------------------------------------------------------------------------
(* Properties of the collapse state (Spec) *)

\* the collapsed flags the diff list ds holds for the file at path
CollapsedOf(ds, path) ==
    {ds[i].collapsed : i \in {j \in 1..Len(ds) : ds[j].path = path}}
\* a step changes the collapsed flag of a file that is in the list before and after
FlagChanged ==
    \E i \in 1..Len(diffs) :
       /\ CollapsedOf(diffs', diffs[i].path) # {}
       /\ CollapsedOf(diffs', diffs[i].path) # CollapsedOf(diffs, diffs[i].path)

\* C19: a file's collapsed flag changes only through an explicit collapse
\* toggle (space on the file, in the content pane or on its sidebar node, or
\* 'z'); every other event, 'x', 'h', a mode change, applying the commit
\* filter and scrolling among them, leaves every path's flag as it was.
C19_CollapsedOnlyByToggle ==
    [][FlagChanged => (KeySpace \/ KeyCollapseAll)]_vars


\* what the persistent map says of the folder at fp: its entry, and expanded
\* for a folder that has none
MapFlag(map, fp) == IF fp \in DOMAIN map THEN map[fp] ELSE TRUE
\* the folders of a tree
FoldersOf(tree) == {tree[i].path : i \in {j \in 1..Len(tree) : tree[j].is_folder}}

\* C18: folder collapse state survives every rebuild.  After every event each
\* folder node of the tree has the expanded flag the persistent map holds for
\* its path (expanded for a folder never toggled), and the map's answer for a
\* folder changes only in a step in which the user toggles (space, click) or
\* opens (Enter) that folder under the cursor: never in a reload, whether or
\* not the folder is in the reloaded diff.
C18_FolderStateSurvivesRebuild ==
    [][/\ \A i \in 1..Len(file_tree') :
             file_tree'[i].is_folder =>
                file_tree'[i].expanded = MapFlag(expanded_folders', file_tree'[i].path)
       /\ \A fp \in DOMAIN expanded_folders \cup DOMAIN expanded_folders'
                      \cup FoldersOf(file_tree) \cup FoldersOf(file_tree') :
             MapFlag(expanded_folders', fp) # MapFlag(expanded_folders, fp) =>
                /\ last'.ev \in {"sb_toggle", "sb_cursor"}
                /\ CursorOn(Self', fp)]_vars

\* folder d was collapsed and a reload has rebuilt the tree with d in it:
\* d is still collapsed and d/x is not listed
C18_Witness ==
    /\ last.ev = "reload"
    /\ <<Ch.d>> \in FoldersOf(file_tree)
    /\ <<Ch.d>> \in DOMAIN expanded_folders
    /\ ~expanded_folders[<<Ch.d>>]
    /\ \A i \in 1..Len(file_tree) :
          file_tree[i].path = <<Ch.d>> => ~file_tree[i].expanded
    /\ \A i \in 1..Len(Nodes) : Nodes[i].path # PathDX


----------------------------------------------------------------------------
(* Properties of the full-file renderer on stale content (SpecStale) *)

\* C21: in full-file mode the cursors old_idx and new_idx never decrease, and
\* the context-fill before a hunk never advances a cursor past the length of
\* its content array: a hunk whose start lies beyond the content held leaves
\* the cursor where it is.
C21_FillStaysInsideContent ==
    [][FullFill =>
          /\ old_idx' >= old_idx
          /\ new_idx' >= new_idx
          /\ old_idx' > old_idx => old_idx' <= Len(old_lines(r_diff))
          /\ new_idx' > new_idx => new_idx' <= Len(new_lines(r_diff))]_vars


----------------------------------------------------------------------------
(* Properties of the navigation arithmetic (Spec) *)

\* C22: no navigation operation panics, whatever the terminal size: max_scroll
\* subtracts the content height from the row total without an arithmetic
\* underflow for every height, 0 and 1 included.
C22_NavigationNeverPanics ==
    run_state # "panicked"


----------------------------------------------------------------------------
(* Properties of the highlight cache (SpecCache) *)

\* C23: the highlight cache never serves a stale row: after any sequence of
\* reloads, whenever get_line answers a renderer's call for (cache key, line
\* index) from the cache, the cached line is the one highlighted from the
\* text the current diff set has at that key and index.
C23_CacheNeverStale ==
    \A d \in 1..Len(diffs) :
       \A call \in Lookups(diffs[d]) :
          cached_line(highlighter, call.key, call.index).some =>
             get_line(highlighter, call.key, call.index, call.content)
              = do_highlight(<<call.content>>)[1]

\* a reload has brought d/x back with edited text (11, 12 for 1, 2): its
\* second hunk line is answered from the cache, with the edited text
C23_Witness ==
    /\ last.ev = "reload"
    /\ \E d \in 1..Len(diffs) :
          /\ diffs[d] = Edited(FileDX, 10)
          /\ [key |-> PathDX, index |-> 1, content |-> 12] \in Lookups(diffs[d])
    /\ cached_line(highlighter, PathDX, 1) = Some(<<Token(12)>>)


----------------------------------------------------------------------------
(* Properties of a run of the process (SpecSession) *)

\* the repository is discovered, HEAD has a commit and the base branch resolves
Resolvable(repo) == repo.discoverable /\ repo.head /\ repo.base

\* C24: startup failure is fatal: when the repository cannot be discovered,
\* or no commit or no base branch can be resolved, main ends with a non-zero
\* exit code without entering the event loop; after a normal quit the process
\* exits with code 0.
C24_StartupFailureFatal ==
    [][/\ (run_state = "starting" /\ ~Resolvable(repo_path)) => run_state' = "exit_err"
       /\ run_state = "quit" => run_state' = "exit_ok"]_vars

\* C27: in the commit filter popup Esc cancels: after 'c' and any sequence of
\* space / 'a' / 'n', Esc leaves the selected commits as they were when the
\* popup was opened, and the diffs shown are those of the current selection.
C27_EscRestoresSelection ==
    [][CommitEsc => /\ commits' = opened
                    /\ diffs' = computed_diffs(Self')]_vars

\* C28: compute_diff treats an empty selected_commits list as "all commits":
\* a reload with the uncommitted entry and every commit deselected shows the
\* diff of the base branch against HEAD, not an empty file list.
C28_EmptySelectionMeansAll ==
    (/\ last.ev = "reload"
     /\ Resolvable(repo_path)
     /\ ~include_uncommitted(commits)
     /\ selected_hashes(commits) = <<>>)
    => /\ compute_diff(repo_path, FALSE, <<>>) = Ok(repo_path.base_to_head)
       /\ diffs = repo_path.base_to_head

----------------------------------------------------------------------------
(* Properties of the sidebar cursor (SpecScroll) *)

\* whether the cursor row is inside the sidebar window
CursorInWindow ==
    /\ file_cursor >= sidebar_scroll
    /\ file_cursor < sidebar_scroll + sidebar_visible_height(Self)

\* the cursor after a move by d, and the least change of scroll that shows it
MovedCursor(d) == Max(0, Min(file_cursor + d, sidebar_len(Self) - 1))
MinimalScroll(d) ==
    LET visible == sidebar_visible_height(Self)
    IN IF MovedCursor(d) < sidebar_scroll THEN MovedCursor(d)
       ELSE IF MovedCursor(d) > sidebar_scroll + visible - 1
       THEN MovedCursor(d) + 1 - visible
       ELSE sidebar_scroll

\* 50 rows, visible height 10 (height 14), cursor 0, move down 12: the cursor
\* is min(0 + 12, 50 - 1) = 12, and ensure_sidebar_cursor_visible, called with
\* total = 50, sets the scroll to 3
C25_Example ==
    LET moved == [NewApp EXCEPT !.height = 14, !.file_cursor = Min(0 + 12, 50 - 1)]
        after == ensure_sidebar_cursor_visible(moved, 50)
    IN sidebar_visible_height(moved) = 10
       /\ after.file_cursor = 12 /\ after.sidebar_scroll = 3

\* C25 as stated: from a state where the cursor is inside the window, 'j' / 'k'
\* with sidebar focus set the cursor to clamp(cursor + d, 0, total - 1) and
\* leave sidebar_scroll unchanged if the cursor is still inside the window,
\* else set it to cursor + 1 - visible (moved below) or to cursor (moved above).
C25_Stated ==
    [][\A checks \in BOOLEAN :
          \A d \in {count, -count} :
             (/\ focus = "Sidebar"
              /\ CursorInWindow
              /\ IF d > 0 THEN KeyDown(checks) ELSE KeyUp(checks))
             => /\ file_cursor' = MovedCursor(d)
                /\ sidebar_scroll' = MinimalScroll(d)]_vars

\* C25 (amended): from a state where the cursor is inside the window, 'j' / 'k'
\* with sidebar focus set the cursor to clamp(cursor + d, 0, total - 1) and the
\* scroll to the least change that shows the cursor, then clamped to
\* total - visible (saturating): a window that a resize left scrolled past the
\* end of the list is pulled back; the stated example gives cursor 12, scroll 3.
C25_MoveScrollsMinimally ==
    [][\A checks \in BOOLEAN :
          \A d \in {count, -count} :
             (/\ focus = "Sidebar"
              /\ CursorInWindow
              /\ IF d > 0 THEN KeyDown(checks) ELSE KeyUp(checks))
             => /\ file_cursor' = MovedCursor(d)
                /\ sidebar_scroll' =
                      Min(MinimalScroll(d),
                          SatSub(sidebar_len(Self), sidebar_visible_height(Self)))
                /\ C25_Example]_vars

\* a move below the window has advanced the scroll just enough: the cursor is
\* on the last row of the window
C25_Witness ==
    /\ last.ev = "sb_cursor"
    /\ sidebar_scroll > 0
    /\ file_cursor = sidebar_scroll + sidebar_visible_height(Self) - 1
    /\ file_cursor < sidebar_len(Self) - 1


----------------------------------------------------------------------------
(* Properties of the view toggles (Spec) *)

\* the cycle of the help popup: split, unified, full
NextMode(mode) ==
    IF mode = "SideBySide" THEN "Unified"
    ELSE IF mode = "Unified" THEN "SideBySideFull"
    ELSE "SideBySide"

\* C26: 'u' in the diff view cycles the diff mode through split (SideBySide),
\* unified (Unified) and full (SideBySideFull): each press moves to the next
\* of the three modes, so every mode is reached and three presses return to
\* the starting mode.
C26_ModeCyclesThroughThree ==
    [][KeyMode => /\ diff_mode' = NextMode(diff_mode)
                  /\ NextMode(NextMode(diff_mode')) = diff_mode]_vars


\* the collapsed flag of every file
CollapsedFlags(self) == [i \in 1..Len(self.diffs) |-> self.diffs[i].collapsed]

\* C30: space with content focus keeps cursor identity: the file that owns
\* content_scroll after the toggle is the file that was toggled, at every
\* scroll position inside that file, so a second space restores every file's
\* collapsed flag.
C30_ToggleKeepsCurrentFile ==
    [][(KeySpace /\ focus = "Content" /\ get_current_file(Self).some)
       => \A after \in {Self'} :
             /\ get_current_file(after) = get_current_file(Self)
             /\ CollapsedFlags(toggle_current_file(after)) = CollapsedFlags(Self)]_vars

----------------------------------------------------------------------------
(* Properties of the display names (SpecNames) *)

\* the other diff paths that have p's basename
Rivals(p) ==
    {diffs[i].path : i \in {k \in 1..Len(diffs) :
        diffs[k].path # p /\ basename(diffs[k].path) = basename(p)}}

\* the trailing suffixes of p, by their first part, that no rival ends with
FreeSuffixes(p) ==
    {i \in 1..Len(Split(p)) : \A q \in Rivals(p) : ~EndsWith(q, TrailingSuffix(p, i))}

\* the shortest of them
ShortestFree(p) ==
    TrailingSuffix(p, CHOOSE i \in FreeSuffixes(p) : \A j \in FreeSuffixes(p) : j <= i)

AllNamed ==
    DOMAIN display_names.v = {diffs[i].path : i \in 1..Len(diffs)}

PairwiseDistinct ==
    \A p, q \in DOMAIN display_names.v :
       p # q => display_names.v[p] # display_names.v[q]

\* C29 as stated: get_display_names maps every diff path to a trailing suffix
\* of it: the basename when no other diff has that basename, otherwise the
\* shortest trailing path-component suffix that no other path with that
\* basename ends with; the names of distinct paths are pairwise distinct.
C29_Stated ==
    display_names.some =>
       /\ AllNamed
       /\ \A p \in DOMAIN display_names.v :
             IF Rivals(p) = {} THEN display_names.v[p] = basename(p)
             ELSE /\ FreeSuffixes(p) # {}
                  /\ display_names.v[p] = ShortestFree(p)
       /\ PairwiseDistinct

\* C29 (amended): as stated, where "ends with" compares strings, and a path
\* all of whose trailing suffixes end a path with the same basename (it is
\* itself the ending of such a path) is shown in full.
C29_ShortestUniqueSuffix ==
    display_names.some =>
       /\ AllNamed
       /\ \A p \in DOMAIN display_names.v :
             /\ \E i \in 1..Len(Split(p)) : display_names.v[p] = TrailingSuffix(p, i)
             /\ IF Rivals(p) = {} THEN display_names.v[p] = basename(p)
                ELSE IF FreeSuffixes(p) # {} THEN display_names.v[p] = ShortestFree(p)
                ELSE display_names.v[p] = p
       /\ PairwiseDistinct

\* a/d/x, b/d/x and a/y without d/y: the two x are told apart by their first
\* folder, y is shown by its basename
C29_Witness ==
    /\ display_names.some
    /\ {PathADX, PathBDX, PathAY} \subseteq DOMAIN display_names.v
    /\ PathDY \notin DOMAIN display_names.v
    /\ display_names.v[PathADX] = PathADX
    /\ display_names.v[PathBDX] = PathBDX
    /\ display_names.v[PathAY] = <<Ch.y>>


----------------------------------------------------------------------------
(* Properties of the two row counters (SpecRows) *)

\* C31: the row count behind the navigation offsets and the row count behind
\* the scroll clamp agree: for every FileDiff and every DiffMode,
\* App::file_line_count(diff) equals diff_view::file_line_count(diff, mode).
C31_CountersAgree ==
    Counted => \A m \in Modes : App_file_line_count(r_diff) = r_count[m]


----------------------------------------------------------------------------
(* Properties of the hidden-file filter (SpecHidden) *)

\* the path has a component that starts with '.', read off the characters
HasDotComponent(p) ==
    \E k \in 1..Len(p) : p[k] = DOT /\ (k = 1 \/ p[k-1] = SLASH)

\* the file name, the characters after the last '/', is a listed lock file
IsLockFile(p) ==
    \E k \in 1..Len(p) :
       /\ k = 1 \/ p[k-1] = SLASH
       /\ \A j \in k..Len(p) : p[j] # SLASH
       /\ SubSeq(p, k, Len(p)) \in HIDDEN_PATTERNS

\* the ascending list of the indices (from 0) of the diffs that are shown
ShownIndices(ds, show) ==
    LET keep == {i \in 1..Len(ds) : show \/ ~(HasDotComponent(ds[i].path) \/ IsLockFile(ds[i].path))}
        F[i \in 0..Len(ds)] ==
            IF i = 0 THEN <<>>
            ELSE LET before == F[i-1]
                 IN IF i \in keep THEN Append(before, i - 1) ELSE before
    IN F[Len(ds)]

VisibleIsFilter == visible_diffs = ShownIndices(diffs, show_hidden)

\* C32: after every event visible_diffs is exactly the ascending list of the
\* indices i of diffs such that show_hidden is true or diffs[i].path is not
\* hidden (no path component starting with '.', file name not a listed lock
\* file); 'h' pressed twice restores the previous visible_diffs.
C32_VisibleIsFilter ==
    /\ [](VisibleIsFilter)
    /\ [][/\ VisibleIsFilter'
          /\ KeyHidden =>
                \A after \in {Self'} :
                   update_visible_diffs([after EXCEPT !.show_hidden = ~after.show_hidden])
                      .visible_diffs = visible_diffs]_vars

\* hidden files are filtered out of the six diffs: only d.x and d/x are shown
C32_Witness ==
    /\ Len(diffs) = 6
    /\ ~show_hidden
    /\ visible_diffs = <<2, 4>>
    /\ last.ev = "reload"


\* C34: 'z' makes all files uniform: afterwards every diff, visible or
\* hidden, is collapsed if at least one diff was expanded before, and expanded
\* if all diffs were collapsed before.
C34_CollapseAllIsUniform ==
    [][KeyCollapseAll =>
          /\ Len(diffs') = Len(diffs)
          /\ \A i \in 1..Len(diffs) :
                diffs'[i].collapsed = (\E j \in 1..Len(diffs) : ~diffs[j].collapsed)]_vars

\* every one of six diffs is collapsed, the four hidden ones too, and 'z' or
\* space was the last key
C34_Witness ==
    /\ Len(diffs) = 6
    /\ Len(visible_diffs) = 2
    /\ \A i \in 1..Len(diffs) : diffs[i].collapsed

----------------------------------------------------------------------------
(* Properties of the tree's diff indices (Spec) *)

FileNodes == {n \in 1..Len(file_tree) : ~file_tree[n].is_folder}

\* C33: after every event every file node of file_tree has a diff_index that
\* is a valid index into diffs, diffs[diff_index].path is the node's path,
\* every diff has exactly one file node, and folder nodes have no diff_index.
C33_TreeIndexesDiffs ==
    /\ \A n \in FileNodes :
          /\ file_tree[n].diff_index.some
          /\ file_tree[n].diff_index.v < Len(diffs)
          /\ diffs[file_tree[n].diff_index.v + 1].path = file_tree[n].path
    /\ \A i \in 1..Len(diffs) :
          Cardinality({n \in FileNodes : file_tree[n].diff_index = Some(i - 1)}) = 1
    /\ \A n \in 1..Len(file_tree) :
          file_tree[n].is_folder => ~file_tree[n].diff_index.some

\* a folder was toggled in the sidebar over two diffs: the rebuilt tree holds
\* the folder and a file node for each diff
C33_Witness ==
    /\ last.ev = "sb_toggle"
    /\ Len(diffs) = 2
    /\ Cardinality(FileNodes) = 2
    /\ \E n \in 1..Len(file_tree) : file_tree[n].is_folder /\ ~file_tree[n].expanded


----------------------------------------------------------------------------
(* Properties of the numeric prefix (SpecPrefix) *)

\* C35: a numeric prefix never reverses direction: with content focus and
\* content_scroll <= max_scroll, 'j' / Down after any digits does not decrease
\* content_scroll and 'k' / Up does not increase it, and the count cast with
\* `as i32` and negated neither wraps to the opposite sign nor overflows.
C35_PrefixKeepsDirection ==
    [][\A checks \in BOOLEAN :
          content_scroll <= max_scroll(Self) =>
             /\ WideDown(checks) =>
                   content_scroll' >= content_scroll /\ run_state' # "panicked"
             /\ WideUp(checks) =>
                   content_scroll' <= content_scroll /\ run_state' # "panicked"]_vars


----------------------------------------------------------------------------
(* Properties of the popups (SpecPopups) *)

\* C36: in the worktree switcher popup, popup_cursor always indexes an entry
\* of the currently filtered worktree list, or is 0 when that list is empty,
\* after any sequence of j / Down, k / Up, typed characters and Backspace.
C36_CursorInFiltered ==
    (Running /\ view_mode = "WorktreeSwitcher") =>
        IF filtered(Self) = <<>> THEN popup_cursor = 0
        ELSE popup_cursor < Len(filtered(Self))

\* Esc in a popup
PopupEsc ==
    \/ CommitEsc
    \/ SwitcherKey(Key("Esc"))
    \/ ListKey(Key("Esc"))
    \/ HelpKey(Key("Esc"))

\* C37: handle_key requests quit only in the Diff view, on 'q' or Esc; in
\* CommitFilter, WorktreeSwitcher, WorktreeList and Help no key requests quit,
\* Esc is handled in each of them, and it returns to the Diff view.
C37_QuitOnlyFromDiff ==
    /\ []((Running /\ view_mode # "Diff") => ENABLED PopupEsc)
    /\ [][/\ (Running /\ run_state' # "running") => (view_mode = "Diff" /\ KeyQuit)
          /\ PopupEsc => (view_mode' = "Diff" /\ run_state' = "running")]_vars

\* Esc has closed the worktree switcher with a filter typed and the cursor moved
C37_Witness ==
    /\ Running
    /\ view_mode = "Diff"
    /\ last.ev = "other"
    /\ filter_input = <<>>
    /\ popup_cursor = 2
    /\ Len(worktrees) = 3


----------------------------------------------------------------------------
(* Properties of parse_diff (SpecParse) *)

\* every FileDiff parse_diff holds: the stored ones, then the current one with
\* the current hunk
ParsedFiles ==
    IF parse.pc = "idle" THEN <<>>
    ELSE LET f == push_hunk(parse.current_file, parse.current_hunk)
         IN IF f.some THEN Append(parse.files, f.v) ELSE parse.files

LinesOfType(diff, t) ==
    SumSeq([h \in 1..Len(diff.hunks) |->
               Len(SelectSeq(diff.hunks[h].lines, LAMBDA l : l.line_type = t))])

CountsMatch ==
    \A i \in 1..Len(ParsedFiles) :
       /\ ParsedFiles[i].added = LinesOfType(ParsedFiles[i], "Added")
       /\ ParsedFiles[i].removed = LinesOfType(ParsedFiles[i], "Removed")

\* every line of every file, in the order of files, hunks and lines
AllLines(fs) ==
    Flatten([i \in 1..Len(fs) |->
               Flatten([h \in 1..Len(fs[i].hunks) |-> fs[i].hunks[h].lines])])
AllHunks(fs) == Flatten([i \in 1..Len(fs) |-> fs[i].hunks])

\* the callback's line lands at the end of the last hunk of the last file, which
\* are the callback's hunk and file, and no stored line moves
StoredWhereEmitted(cb) ==
    LET before == AllLines(ParsedFiles)
        after == AllLines(ParsedFiles')
        file == ParsedFiles'[Len(ParsedFiles')]
        hunk == file.hunks[Len(file.hunks)]
    IN IF cb.origin \in {"+", "-", " "}
       THEN /\ Len(after) = Len(before) + 1
            /\ SubSeq(after, 1, Len(before)) = before
            /\ file.path = cb.path
            /\ hunk.header = trim(cb.hunk.v.header)
            /\ hunk.lines[Len(hunk.lines)] = after[Len(after)]
            /\ after[Len(after)].line_type = LineTypeOf(cb.origin)
            /\ after[Len(after)].content = trim_end_matches(cb.content, {10, 13})
       ELSE after = before

\* a hunk is added exactly when the callback has a hunk whose header is not
\* that of the previous hunk of the same file
HunkStartsOnNewHeader(cb) ==
    LET fs == ParsedFiles
        same_file == fs # <<>> /\ fs[Len(fs)].path = cb.path
        hs == IF same_file THEN fs[Len(fs)].hunks ELSE <<>>
        differs == hs = <<>> \/ hs[Len(hs)].header # trim(cb.hunk.v.header)
        n == Len(AllHunks(ParsedFiles))
    IN /\ Len(AllHunks(ParsedFiles')) = IF cb.hunk.some /\ differs THEN n + 1 ELSE n
       /\ SubSeq([k \in 1..Len(AllHunks(ParsedFiles')) |-> AllHunks(ParsedFiles')[k].header],
                 1, n)
            = [k \in 1..n |-> AllHunks(ParsedFiles)[k].header]

\* C38: for every sequence of callbacks fed to parse_diff, each FileDiff has
\* added equal to the number of Added lines and removed equal to the number of
\* Removed lines stored in its hunks, every line is stored in the hunk and the
\* file it was emitted under, in emission order, and a new Hunk starts exactly
\* when the hunk header differs from the previous one within the same file.
C38_ParseKeepsLines ==
    /\ [](CountsMatch)
    /\ [][\A cb \in Callbacks :
            ParseCallback(cb) => StoredWhereEmitted(cb) /\ HunkStartsOnNewHeader(cb)]_vars
    /\ [][ParseReturn => parse'.files = ParsedFiles]_vars

\* two files returned: x with two hunks of two and one line, then y
C38_Witness ==
    /\ parse.pc = "done"
    /\ Len(parse.files) = 2
    /\ parse.files[1].path = <<Ch.x>>
    /\ Len(parse.files[1].hunks) = 2
    /\ Len(parse.files[1].hunks[1].lines) = 2
    /\ parse.files[1].added = 2
    /\ parse.files[1].removed = 1
    /\ parse.files[2].added = 1

====
